---- MODULE Spec2Model ----
(***************************************************************************)
(* Model of the Dockerfile size-optimisation tooling:                      *)
(*   - llm_agents/dockerfile_pipeline.py  (DockerfilePipeline, main)       *)
(*   - llm_agents/dockerfile_fixer.py     (DockerfileFixer)                *)
(*   - llm_agents/dockerfile_llm_analyzer.py (DockerfileAnalyzer)          *)
(*   - llm_agents/dockerfile_validator.py (DockerfileValidator)            *)
(*   - llm_agents/dockerfile_tester.py    (DockerfileTester)               *)
(*   - optimizer.py (imported as dockerfile_optimizer) and                 *)
(*     size_optimization_pipeline.py (the mechanical patcher)              *)
(*   - llm_size_report.py, llm_scorecard.py and                            *)
(*     size_optimization_pipeline.py (the loops of the batch runners)      *)
(*                                                                         *)
(* A text is a sequence of tokens.  A token is an atomic piece of text     *)
(* (one character such as a newline or a backslash, or one word); every    *)
(* string operation of the code (strip, split, find, replace, in,          *)
(* startswith, endswith) is computed on token sequences.                   *)
(***************************************************************************)
EXTENDS Integers, Sequences, FiniteSets, TLC

VARIABLES
    pc,                 \* position of the CLI / of optimize_dockerfile
    mode,               \* "single" (positional path) or "repos" (--repos-file)
    skip_test,          \* args.skip_test
    docker_available,   \* DockerfileTester.docker_available
    output_given,       \* args.output is set
    disk,               \* the file at dockerfile_path: [exists, content]
    outFile,            \* the file at args.output: [exists, content]
    original_analysis,  \* optimize_dockerfile: original_analysis
    original_content,   \* optimize_dockerfile: original_content
    fixed_content,      \* optimize_dockerfile: fixed_content
    stages,             \* results["stages"]
    success,            \* results["success"]: "absent", "true" or "false"
    fix_result,         \* optimize_dockerfile: fix_result (what the fixer returned)
    test_image,         \* test_result.get("image_name") ("" when absent)
    calls,              \* the collaborator calls made by the current run, in order
    all_results,        \* main (--repos-file): all_results
    remaining,          \* main (--repos-file): Dockerfiles still to process
    exit_code,          \* the argument of sys.exit (-1 before exit)
    px,                 \* patcher and parser harness: the input text
    py,                 \* patcher harness: result of the first application
    pz,                 \* patcher harness: result of the second application
    ppc,                \* patcher and parser harness: position
    pinstr,             \* parser harness: parse_dockerfile(px)
    precs,              \* parser harness: analyse_instructions(pinstr)
    pround,             \* parser harness: the parse of pinstr written back as text
    brunner,            \* batch harness: the batch runner
    bqueue,             \* batch harness: the repositories of the list, in order
    bidx,               \* batch harness: how many of them the loop has handled
    brecords,           \* batch harness: records / all_results
    bpc,                \* batch harness: position of main
    hin,                \* function harness: the arguments of the call
    hout,               \* function harness: what the call returned
    hpc                 \* function harness: position

vars == <<pc, mode, skip_test, docker_available, output_given, disk, outFile,
          original_analysis, original_content, fixed_content, stages, success,
          fix_result, test_image, calls, all_results, remaining, exit_code,
          px, py, pz, ppc, pinstr, precs, pround,
          brunner, bqueue, bidx, brecords, bpc, hin, hout, hpc>>

pipelineVars == <<pc, mode, skip_test, docker_available, output_given, disk,
                  outFile, original_analysis, original_content, fixed_content,
                  stages, success, fix_result, test_image, calls, all_results,
                  remaining, exit_code>>

patcherVars == <<px, py, pz, ppc>>

parserVars == <<pinstr, precs, pround>>

batchVars == <<brunner, bqueue, bidx, brecords, bpc>>

funcVars == <<hin, hout, hpc>>

harnessVars == <<patcherVars, parserVars, batchVars, funcVars>>

-----------------------------------------------------------------------------
(* Tokens *)

LF == "\n"
CR == "\r"
FF == "\f"
BS == "\\"
SP == " "
IND == "    "
HASH == "#"
QUOTE == "'"
\* the Markdown code fence (three backquotes)
FENCE == "<fence>"

\* str.strip() / str.rstrip() / str.split(None): the whitespace characters
Whitespace == {SP, IND, LF, CR, FF}

Max(S) == CHOOSE m \in S : \A n \in S : n <= m
Min(S) == CHOOSE m \in S : \A n \in S : m <= n

\* s[i:] and s[:i] with Python's 0-based, end-exclusive indices
From(s, i) == SubSeq(s, i + 1, Len(s))
UpTo(s, i) == SubSeq(s, 1, i)

RStrip(s) ==
    LET keep == {i \in 1..Len(s) : s[i] \notin Whitespace}
    IN  IF keep = {} THEN <<>> ELSE SubSeq(s, 1, Max(keep))

LStrip(s) ==
    LET keep == {i \in 1..Len(s) : s[i] \notin Whitespace}
    IN  IF keep = {} THEN <<>> ELSE SubSeq(s, Min(keep), Len(s))

Strip(s) == LStrip(RStrip(s))

\* tok in s
Has(s, tok) == \E i \in 1..Len(s) : s[i] = tok

\* s.find(tok, start): 0-based position, -1 when absent
Find(s, tok, start) ==
    LET hits == {i \in (start + 1)..Len(s) : s[i] = tok}
    IN  IF hits = {} THEN -1 ELSE Min(hits) - 1

\* s.split(sep) for a one-token separator: k separators give k + 1 pieces
RECURSIVE Split(_, _)
Split(s, sep) ==
    LET i == Find(s, sep, 0)
    IN  IF i = -1 THEN <<s>>
        ELSE <<UpTo(s, i)>> \o Split(From(s, i + 1), sep)

\* sep.join(pieces)
RECURSIVE Join(_, _)
Join(pieces, sep) ==
    IF pieces = <<>> THEN <<>>
    ELSE IF Len(pieces) = 1 THEN pieces[1]
    ELSE pieces[1] \o <<sep>> \o Join(Tail(pieces), sep)

\* s.replace(tok, "")
RemoveAll(s, tok) == SelectSeq(s, LAMBDA t : t # tok)

\* s.replace(tok, repl) where repl is a token sequence
RECURSIVE ReplaceTok(_, _, _)
ReplaceTok(s, tok, repl) ==
    IF s = <<>> THEN <<>>
    ELSE (IF Head(s) = tok THEN repl ELSE <<Head(s)>>)
         \o ReplaceTok(Tail(s), tok, repl)

-----------------------------------------------------------------------------
(* DockerfileAnalyzer._call_llm *)

NoResponse == <<"Error:", SP, "No response from LLM">>

\* What the Gemini client does on one call:
\*   kind "raise": generate_content raises, text is str(e)
\*   kind "text" : a response whose text is `text` (empty: no text at all)
LLMOutcome(kind, text) == [kind |-> kind, text |-> text]

CallLLM(o) ==
    IF o.kind = "raise" THEN <<"LLM API error:", SP>> \o o.text
    ELSE IF o.text = <<>> THEN NoResponse
    ELSE Strip(o.text)

\* response.startswith("Error:")
StartsWithError(r) == r # <<>> /\ r[1] = "Error:"
\* response.startswith("LLM API error:")
StartsWithApiError(r) == r # <<>> /\ r[1] = "LLM API error:"

-----------------------------------------------------------------------------
(* DockerfileFixer._extract_dockerfile *)

\* tokens t with t.upper().startswith("FROM")
FromPrefixToks == {"FROM", "from"}

\* tokens t such that t.upper() contains FROM, RUN, COPY, ADD or WORKDIR
DockerKeywordToks ==
    {"FROM", "from", "RUN", "run", "COPY", "ADD", "WORKDIR",
     "No response from LLM"}

\* the while loop that cuts the code fences out of the response
RECURSIVE StripFences(_)
StripFences(cleaned) ==
    IF ~Has(cleaned, FENCE) THEN cleaned
    ELSE LET start == Find(cleaned, FENCE, 0)
             end   == Find(cleaned, FENCE, start + 1)
         IN  IF end = -1 THEN Strip(UpTo(cleaned, start))
             ELSE StripFences(Strip(UpTo(cleaned, start)
                                    \o SubSeq(cleaned, start + 2, end)
                                    \o From(cleaned, end + 1)))

\* the first loop over the lines: keeps everything from the first FROM line on
RECURSIVE ScanFromLines(_, _)
ScanFromLines(lines, found_from) ==
    IF lines = <<>> THEN [kept |-> <<>>, found |-> found_from]
    ELSE LET line     == Head(lines)
             stripped == Strip(line)
             isFrom   == stripped # <<>> /\ stripped[1] # HASH
                         /\ stripped[1] \in FromPrefixToks
             blank    == stripped = <<>> \/ stripped[1] = HASH
             keep     == IF blank THEN found_from
                         ELSE IF isFrom THEN TRUE
                         ELSE found_from /\ ~Has(stripped, FENCE)
             rest     == ScanFromLines(Tail(lines), found_from \/ isFrom)
         IN  [kept  |-> (IF keep THEN <<line>> ELSE <<>>) \o rest.kept,
              found |-> rest.found]

\* the fallback loop: lines that mention a Dockerfile keyword
KeywordLines(lines) ==
    SelectSeq(lines, LAMBDA line :
        LET stripped == Strip(line)
        IN  /\ ~Has(stripped, FENCE)
            /\ \E i \in 1..Len(stripped) : stripped[i] \in DockerKeywordToks)

ExtractDockerfile(response) ==
    IF response = <<>> \/ StartsWithError(response) THEN <<>>
    ELSE LET cleaned == Strip(RemoveAll(StripFences(Strip(response)), FENCE))
             lines   == Split(cleaned, LF)
             scan    == ScanFromLines(lines, FALSE)
             dockerfile_lines ==
                 IF scan.found THEN scan.kept ELSE KeywordLines(lines)
             result  == IF dockerfile_lines # <<>>
                        THEN Join(dockerfile_lines, LF) ELSE cleaned
         IN  Strip(RemoveAll(result, FENCE))

-----------------------------------------------------------------------------
(* DockerfileFixer.fix_dockerfile *)

\* analysis_results as the fixer reads it:
\*   empty       : the dict is empty (falsy)
\*   llm_success : analysis_results["llm_analysis"]["success"]
FixResult(ok, text, called) ==
    [success |-> ok, fixed_dockerfile |-> text, llm_called |-> called]

\* a fixer without the comparison with the original of line 177
FixDockerfileNoIdentityCheck(original_dockerfile, analysis_results, o) ==
    IF original_dockerfile = <<>> \/ Strip(original_dockerfile) = <<>>
    THEN FixResult(FALSE, original_dockerfile, FALSE)
    ELSE IF analysis_results.empty \/ ~analysis_results.llm_success
    THEN FixResult(FALSE, original_dockerfile, FALSE)
    ELSE LET fixed_dockerfile == ExtractDockerfile(CallLLM(o))
         IN  IF fixed_dockerfile = <<>>
             THEN FixResult(FALSE, original_dockerfile, TRUE)
             ELSE FixResult(TRUE, fixed_dockerfile, TRUE)

FixDockerfile(original_dockerfile, analysis_results, o) ==
    IF original_dockerfile = <<>> \/ Strip(original_dockerfile) = <<>>
    THEN FixResult(FALSE, original_dockerfile, FALSE)
    ELSE IF analysis_results.empty
    THEN FixResult(FALSE, original_dockerfile, FALSE)
    ELSE IF ~analysis_results.llm_success
    THEN FixResult(FALSE, original_dockerfile, FALSE)
    ELSE LET response         == CallLLM(o)
             fixed_dockerfile == ExtractDockerfile(response)
         IN  IF fixed_dockerfile = <<>> \/ fixed_dockerfile = original_dockerfile
             THEN FixResult(FALSE, original_dockerfile, TRUE)
             ELSE FixResult(TRUE, fixed_dockerfile, TRUE)


-----------------------------------------------------------------------------
(* DockerfileAnalyzer.dynamic_llm_analysis and analyze_dockerfile *)

\* The reply of the LLM service to the analysis prompt, by what the code
\* does with it:
\*   "api_error"   : _call_llm returned "LLM API error: ..."
\*   "no_response" : _call_llm returned "Error: No response from LLM"
\*   "object"      : a JSON object with list-valued issue fields
\*   "blank"       : the empty string (replaced by "{}")
\*   "truncated"   : undecodable JSON from which an issue array is recovered
\*   "not_json"    : undecodable, nothing recovered
\*   "non_object"  : valid JSON that is not an object (llm_data.get raises)
\*   "bad_lists"   : an object whose issue fields are not lists (len raises)
AnalysisReplies ==
    {"api_error", "no_response", "object", "blank", "truncated", "not_json",
     "non_object", "bad_lists"}

DynamicLLMAnalysis(reply) ==
    [raised  |-> reply \in {"non_object", "bad_lists"},
     success |-> reply \in {"object", "blank", "truncated"}]

\* file: "missing" (FileNotFoundError), "unreadable" (any other error of
\* open/read) or "ok"
AnalysisRecord(raised, has_error, llm_success) ==
    [empty |-> FALSE, raised |-> raised, has_error |-> has_error,
     llm_success |-> llm_success]

NoAnalysis ==
    [empty |-> TRUE, raised |-> FALSE, has_error |-> FALSE,
     llm_success |-> FALSE]

AnalyzeDockerfile(file, reply) ==
    IF file = "missing" THEN AnalysisRecord(FALSE, TRUE, FALSE)
    ELSE IF file = "unreadable" THEN AnalysisRecord(TRUE, FALSE, FALSE)
    ELSE LET llm_analysis == DynamicLLMAnalysis(reply)
         IN  IF llm_analysis.raised THEN AnalysisRecord(TRUE, FALSE, FALSE)
             ELSE AnalysisRecord(FALSE, FALSE, llm_analysis.success)

-----------------------------------------------------------------------------
(* DockerfileValidator.validate_fixes *)

\* temp_ok: the temporary file could be written; reply: the LLM's reply to
\* the analysis of the fixed text
ValidateFixes(analysis, fixed_dockerfile, temp_ok, reply) ==
    IF analysis.empty THEN [raised |-> FALSE, success |-> FALSE]
    ELSE IF fixed_dockerfile = <<>> \/ Strip(fixed_dockerfile) = <<>>
    THEN [raised |-> FALSE, success |-> FALSE]
    ELSE IF ~temp_ok THEN [raised |-> TRUE, success |-> FALSE]
    ELSE LET fixed_analysis == AnalyzeDockerfile("ok", reply)
         IN  IF fixed_analysis.raised \/ fixed_analysis.has_error
             THEN [raised |-> FALSE, success |-> FALSE]
             ELSE [raised |-> FALSE, success |-> fixed_analysis.llm_success]

-----------------------------------------------------------------------------
(* DockerfileTester *)

\* image_name = f"dockerfile-test-{int(time.time())}"
ImageName == "dockerfile-test-<time>"

ValidateSyntax(dockerfile_content) ==
    /\ Strip(dockerfile_content) # <<>>
    /\ \E k \in 1..Len(Split(dockerfile_content, LF)) :
          LET stripped == Strip(Split(dockerfile_content, LF)[k])
          IN  /\ stripped # <<>>
              /\ stripped[1] # HASH
              /\ stripped[1] \in FromPrefixToks

BuildOutcomes == {"ok", "failed", "timeout", "error"}
RunOutcomes == {"ok", "failed", "timeout", "error"}

NoTest ==
    [raised |-> FALSE, success |-> FALSE, image_name |-> "",
     built |-> FALSE, build_file |-> <<>>, ran |-> FALSE, note |-> ""]

\* path_file: the file at dockerfile_path ([exists, content]);
\* temp_ok: the temporary Dockerfile could be written;
\* build, run: what docker build / docker run do
TestDockerfile(available, dockerfile_content, path_file, temp_ok, build, run) ==
    IF ~available
    THEN [NoTest EXCEPT !.note = "Docker CLI not available"]
    ELSE IF ~ValidateSyntax(dockerfile_content)
    THEN [NoTest EXCEPT !.note = "Dockerfile syntax validation failed"]
    ELSE IF ~path_file.exists /\ ~temp_ok
    THEN [NoTest EXCEPT !.raised = TRUE, !.note = "exception"]
    ELSE LET dockerfile_to_use ==
                 IF path_file.exists THEN path_file.content
                 ELSE dockerfile_content
             test_success == build = "ok" /\ run = "ok"
         IN  [raised     |-> FALSE,
              success    |-> test_success,
              image_name |-> ImageName,
              built      |-> TRUE,
              build_file |-> dockerfile_to_use,
              ran        |-> build = "ok",
              note       |-> IF build = "timeout" THEN "Build timed out"
                             ELSE IF build # "ok" THEN "build failed"
                             ELSE IF run # "ok" THEN "test failed"
                             ELSE ""]

-----------------------------------------------------------------------------
(* Inputs of the pipeline runs *)

\* most Dockerfiles a --repos-file run finds in the cloned repository
MaxFiles == 2

Dockerfile1 ==
    <<"FROM", SP, "ubuntu", LF, "RUN", SP, "apt-get install", SP, "curl">>

Dockerfile1Fixed ==
    <<"FROM", SP, "ubuntu:22.04", LF, "RUN", SP, "apt-get install", SP,
      "--no-install-recommends", SP, "curl">>

\* contents of the build file given to the pipeline
Originals == {Dockerfile1, Dockerfile1 \o <<LF>>, <<>>}

\* texts the LLM answers the fix prompt with
FixTexts(original) ==
    {original,
     Dockerfile1Fixed,
     <<FENCE, "dockerfile", LF>> \o Dockerfile1Fixed \o <<LF, FENCE>>,
     <<"Sorry, nothing to change.">>,
     <<SP>>,
     <<>>}

FixOutcomes(original) ==
    {LLMOutcome("raise", <<"429 quota exceeded">>)}
    \cup {LLMOutcome("text", t) : t \in FixTexts(original)}

-----------------------------------------------------------------------------
(* DockerfilePipeline.optimize_dockerfile *)

StageNames == {"analysis", "fix", "validation", "test"}

\* one entry of results["stages"]:
\*   "absent"  : no such key
\*   "success" : {"success": True, ...}
\*   "failure" : {"success": False, ...}
\*   "skipped" : {"success": None, "skipped": True, ...}
Stage(status, note) == [status |-> status, note |-> note]
AbsentStage == Stage("absent", "")

Call(op, text, image, result) ==
    [op |-> op, text |-> text, image |-> image, result |-> result]

NoFile == [exists |-> FALSE, content |-> <<>>]
File(content) == [exists |-> TRUE, content |-> content]

NoFix == [returned |-> FALSE, success |-> FALSE, fixed_dockerfile |-> <<>>]

\* lines 73-75 and 77-82: the Analyze stage failed
AnalysisFailed(a) == a.raised \/ a.has_error

\* a pipeline that records the failure of Analyze and carries on
AfterAnalyzeFallThrough(a) == "read"

\* lines 76 and 83: a failed Analyze stage returns the results at once
AfterAnalyze(a) == IF AnalysisFailed(a) THEN "returned" ELSE "read"

\* lines 103-105: the Fix stage ends the run unless the fixer reports success
FixFailed(r) == ~r.success

\* a pipeline that removes the image of a passed test only
NeedsCleanupOnSuccess(t) == t.success /\ t.image_name # ""

\* line 164: the image is removed when the test result names one
NeedsCleanup(t) == t.image_name # ""

\* a pipeline whose overall success also asks for a test that did not fail
OverallSuccessGatedByTest(st) ==
    /\ st["analysis"].status = "success"
    /\ st["fix"].status = "success"
    /\ st["validation"].status = "success"
    /\ st["test"].status # "failure"

\* lines 184-187
OverallSuccess(st) ==
    st["analysis"].status = "success" /\ st["fix"].status = "success"

Analyze ==
    /\ pc = "analyze"
    /\ \E readable \in BOOLEAN, reply \in AnalysisReplies :
          LET file == IF ~disk.exists THEN "missing"
                      ELSE IF ~readable THEN "unreadable" ELSE "ok"
              a    == AnalyzeDockerfile(file, reply)
          IN  /\ calls' = Append(calls, Call("analyze_dockerfile", <<>>, "", ""))
              /\ original_analysis' = IF a.raised THEN original_analysis ELSE a
              /\ stages' = [stages EXCEPT !["analysis"] =
                                IF AnalysisFailed(a)
                                THEN Stage("failure",
                                           IF a.raised THEN "exception"
                                           ELSE "Dockerfile not found")
                                ELSE Stage("success", "")]
              /\ pc' = AfterAnalyze(a)
    /\ UNCHANGED <<mode, skip_test, docker_available, output_given, disk,
                   outFile, original_content, fixed_content, success,
                   fix_result, test_image, all_results, remaining, exit_code>>
    /\ UNCHANGED harnessVars

\* lines 85-91
ReadOriginal ==
    /\ pc = "read"
    /\ \E readable \in BOOLEAN :
          IF disk.exists /\ readable
          THEN /\ original_content' = disk.content
               /\ pc' = "fix"
               /\ UNCHANGED stages
          ELSE /\ stages' = [stages EXCEPT !["analysis"] =
                                 Stage("failure", "Failed to read Dockerfile")]
               /\ pc' = "returned"
               /\ UNCHANGED original_content
    /\ UNCHANGED <<mode, skip_test, docker_available, output_given, disk,
                   outFile, original_analysis, fixed_content, success,
                   fix_result, test_image, calls, all_results, remaining,
                   exit_code>>
    /\ UNCHANGED harnessVars

\* the build file is removed by another process while the pipeline runs
FileVanishes ==
    /\ pc \in {"read", "test"}
    /\ disk.exists
    /\ disk' = NoFile
    /\ UNCHANGED <<pc, mode, skip_test, docker_available, output_given,
                   outFile, original_analysis, original_content,
                   fixed_content, stages, success, fix_result, test_image,
                   calls, all_results, remaining, exit_code>>
    /\ UNCHANGED harnessVars

\* lines 97-113; fixer_raises: fix_dockerfile raises while it formats the
\* analysis data of the LLM (possible only once it got that far)
Fix ==
    /\ pc = "fix"
    /\ \E fixer_raises \in BOOLEAN, o \in FixOutcomes(original_content) :
          LET r == FixDockerfile(original_content, original_analysis, o)
              raised == fixer_raises /\ r.llm_called
          IN  /\ calls' =
                     Append(calls, Call("fix_dockerfile", <<>>, "", ""))
                     \o (IF r.llm_called /\ ~raised
                         THEN <<Call("_call_llm", CallLLM(o), "", "")>>
                         ELSE <<>>)
              /\ fix_result' =
                     IF raised THEN NoFix
                     ELSE [returned |-> TRUE, success |-> r.success,
                           fixed_dockerfile |-> r.fixed_dockerfile]
              /\ stages' = [stages EXCEPT !["fix"] =
                                IF raised THEN Stage("failure", "exception")
                                ELSE IF FixFailed(r) THEN Stage("failure", "")
                                ELSE Stage("success", "")]
              /\ IF raised \/ FixFailed(r)
                 THEN pc' = "returned" /\ UNCHANGED fixed_content
                 ELSE pc' = "validate" /\ fixed_content' = r.fixed_dockerfile
    /\ UNCHANGED <<mode, skip_test, docker_available, output_given, disk,
                   outFile, original_analysis, original_content, success,
                   test_image, all_results, remaining, exit_code>>
    /\ UNCHANGED harnessVars

\* lines 119-138
Validate ==
    /\ pc = "validate"
    /\ \E temp_ok \in BOOLEAN, reply \in AnalysisReplies :
          LET v == ValidateFixes(original_analysis, fixed_content, temp_ok, reply)
          IN  /\ calls' = Append(calls, Call("validate_fixes", fixed_content, "", ""))
              /\ stages' = [stages EXCEPT !["validation"] =
                                IF v.raised THEN Stage("failure", "exception")
                                ELSE IF v.success THEN Stage("success", "")
                                ELSE Stage("failure", "")]
    /\ pc' = "test"
    /\ UNCHANGED <<mode, skip_test, docker_available, output_given, disk,
                   outFile, original_analysis, original_content,
                   fixed_content, success, fix_result, test_image,
                   all_results, remaining, exit_code>>
    /\ UNCHANGED harnessVars

\* lines 175-179
TestSkipped ==
    /\ pc = "test"
    /\ skip_test
    /\ stages' = [stages EXCEPT !["test"] = Stage("skipped", "")]
    /\ pc' = "finalize"
    /\ UNCHANGED <<mode, skip_test, docker_available, output_given, disk,
                   outFile, original_analysis, original_content,
                   fixed_content, success, fix_result, test_image, calls,
                   all_results, remaining, exit_code>>
    /\ UNCHANGED harnessVars

\* lines 146-152
TestNoDocker ==
    /\ pc = "test"
    /\ ~skip_test
    /\ ~docker_available
    /\ stages' = [stages EXCEPT !["test"] =
                      Stage("skipped", "Docker CLI not available")]
    /\ pc' = "finalize"
    /\ UNCHANGED <<mode, skip_test, docker_available, output_given, disk,
                   outFile, original_analysis, original_content,
                   fixed_content, success, fix_result, test_image, calls,
                   all_results, remaining, exit_code>>
    /\ UNCHANGED harnessVars

\* lines 153-174 up to the cleanup
TestRun ==
    /\ pc = "test"
    /\ ~skip_test
    /\ docker_available
    /\ \E temp_ok \in BOOLEAN, build \in BuildOutcomes :
       \E run \in (IF build = "ok" THEN RunOutcomes ELSE {"ok"}) :
          LET t == TestDockerfile(docker_available, fixed_content, disk,
                                  temp_ok, build, run)
          IN  /\ calls' =
                     Append(calls, Call("test_dockerfile", fixed_content, "", ""))
                     \o (IF t.built
                         THEN <<Call("docker build", t.build_file,
                                     t.image_name, build)>>
                         ELSE <<>>)
                     \o (IF t.ran
                         THEN <<Call("docker run", <<>>, t.image_name, run)>>
                         ELSE <<>>)
              /\ stages' = [stages EXCEPT !["test"] =
                                IF t.raised THEN Stage("failure", "exception")
                                ELSE IF t.success THEN Stage("success", "")
                                ELSE Stage("failure", t.note)]
              /\ test_image' = IF t.raised THEN "" ELSE t.image_name
              /\ pc' = IF ~t.raised /\ NeedsCleanup(t)
                       THEN "cleanup" ELSE "finalize"
    /\ UNCHANGED <<mode, skip_test, docker_available, output_given, disk,
                   outFile, original_analysis, original_content,
                   fixed_content, success, fix_result, all_results,
                   remaining, exit_code>>
    /\ UNCHANGED harnessVars

\* lines 164-168
Cleanup ==
    /\ pc = "cleanup"
    /\ calls' = Append(calls, Call("cleanup_image", <<>>, test_image, ""))
    /\ pc' = "finalize"
    /\ UNCHANGED <<mode, skip_test, docker_available, output_given, disk,
                   outFile, original_analysis, original_content,
                   fixed_content, stages, success, fix_result, test_image,
                   all_results, remaining, exit_code>>
    /\ UNCHANGED harnessVars

\* lines 181-189
Finalize ==
    /\ pc = "finalize"
    /\ success' = IF OverallSuccess(stages) THEN "true" ELSE "false"
    /\ pc' = "returned"
    /\ UNCHANGED <<mode, skip_test, docker_available, output_given, disk,
                   outFile, original_analysis, original_content,
                   fixed_content, stages, fix_result, test_image, calls,
                   all_results, remaining, exit_code>>
    /\ UNCHANGED harnessVars

-----------------------------------------------------------------------------
(* main *)

\* what main reads of one result: results.get("success", False) and, of
\* results["stages"].get("test", {}), the keys "success" and "skipped"
Summary(succ, st) == [success |-> succ, test |-> st["test"].status]

\* results.get("success", False)
ResultSuccess(succ) == succ = "true"

\* lines 444-448 and 518-522: the fixed text is written to
\* args.output or dockerfile_path
WriteOutput ==
    IF ResultSuccess(success)
    THEN IF output_given
         THEN outFile' = File(fixed_content) /\ UNCHANGED disk
         ELSE disk' = File(fixed_content) /\ UNCHANGED outFile
    ELSE UNCHANGED <<disk, outFile>>

\* line 527
SingleExitCode(succ, st) == IF ResultSuccess(succ) THEN 0 ELSE 1

\* lines 476-493
ReposExitCode(results) ==
    LET failed(r) ==
            \/ ~ResultSuccess(r.success)
            \/ r.test = "failure"
    IN  IF \E i \in 1..Len(results) : failed(results[i]) THEN 1 ELSE 0

FreshRun ==
    /\ original_analysis' = NoAnalysis
    /\ original_content' = <<>>
    /\ fixed_content' = <<>>
    /\ stages' = [n \in StageNames |-> AbsentStage]
    /\ success' = "absent"
    /\ fix_result' = NoFix
    /\ test_image' = ""
    /\ calls' = <<>>

\* line 502: optimize_dockerfile(args.dockerfile_path)
MainSingleStart ==
    /\ pc = "main"
    /\ mode = "single"
    /\ pc' = "analyze"
    /\ UNCHANGED <<mode, skip_test, docker_available, output_given, disk,
                   outFile, original_analysis, original_content,
                   fixed_content, stages, success, fix_result, test_image,
                   calls, all_results, remaining, exit_code>>
    /\ UNCHANGED harnessVars

\* lines 504-527
MainSingleFinish ==
    /\ pc = "returned"
    /\ mode = "single"
    /\ WriteOutput
    /\ exit_code' = SingleExitCode(success, stages)
    /\ pc' = "exited"
    /\ UNCHANGED <<mode, skip_test, docker_available, output_given,
                   original_analysis, original_content, fixed_content,
                   stages, success, fix_result, test_image, calls,
                   all_results, remaining>>
    /\ UNCHANGED harnessVars

\* lines 406-409
MainReposNoFiles ==
    /\ pc = "main"
    /\ mode = "repos"
    /\ remaining = 0
    /\ exit_code' = 0
    /\ pc' = "exited"
    /\ UNCHANGED <<mode, skip_test, docker_available, output_given, disk,
                   outFile, original_analysis, original_content,
                   fixed_content, stages, success, fix_result, test_image,
                   calls, all_results, remaining>>
    /\ UNCHANGED harnessVars

\* lines 422-428: the next Dockerfile found in the clone
MainReposNext ==
    /\ pc \in {"main", "next"}
    /\ mode = "repos"
    /\ remaining > 0
    /\ \E content \in Originals : disk' = File(content)
    /\ FreshRun
    /\ pc' = "analyze"
    /\ UNCHANGED <<mode, skip_test, docker_available, output_given, outFile,
                   all_results, remaining, exit_code>>
    /\ UNCHANGED harnessVars

\* lines 430-450
MainReposRecord ==
    /\ pc = "returned"
    /\ mode = "repos"
    /\ WriteOutput
    /\ all_results' = Append(all_results, Summary(success, stages))
    /\ remaining' = remaining - 1
    /\ pc' = IF remaining = 1 THEN "summary" ELSE "next"
    /\ UNCHANGED <<mode, skip_test, docker_available, output_given,
                   original_analysis, original_content, fixed_content,
                   stages, success, fix_result, test_image, calls,
                   exit_code>>
    /\ UNCHANGED harnessVars

\* lines 476-493
MainReposExit ==
    /\ pc = "summary"
    /\ exit_code' = ReposExitCode(all_results)
    /\ pc' = "exited"
    /\ UNCHANGED <<mode, skip_test, docker_available, output_given, disk,
                   outFile, original_analysis, original_content,
                   fixed_content, stages, success, fix_result, test_image,
                   calls, all_results, remaining>>
    /\ UNCHANGED harnessVars

-----------------------------------------------------------------------------
(* The pipeline specification *)

PatcherOff ==
    /\ px = <<>>
    /\ py = [text |-> <<>>, changes |-> <<>>]
    /\ pz = [text |-> <<>>, changes |-> <<>>]
    /\ ppc = "off"

ParserOff ==
    /\ pinstr = <<>>
    /\ precs = <<>>
    /\ pround = <<>>

FuncOff ==
    /\ hin = <<>>
    /\ hout = <<>>
    /\ hpc = "off"

BatchOff ==
    /\ brunner = "none"
    /\ bqueue = <<>>
    /\ bidx = 0
    /\ brecords = <<>>
    /\ bpc = "off"

Init ==
    /\ pc = "main"
    /\ mode \in {"single", "repos"}
    /\ skip_test \in BOOLEAN
    /\ docker_available \in BOOLEAN
    /\ output_given \in BOOLEAN
    /\ disk \in {NoFile} \cup {File(c) : c \in Originals}
    /\ (mode = "repos" => disk = NoFile)
    /\ outFile = NoFile
    /\ original_analysis = NoAnalysis
    /\ original_content = <<>>
    /\ fixed_content = <<>>
    /\ stages = [n \in StageNames |-> AbsentStage]
    /\ success = "absent"
    /\ fix_result = NoFix
    /\ test_image = ""
    /\ calls = <<>>
    /\ all_results = <<>>
    /\ remaining \in 0..MaxFiles
    /\ (mode = "single" => remaining = 1)
    /\ exit_code = -1
    /\ PatcherOff
    /\ ParserOff
    /\ BatchOff
    /\ FuncOff

Next ==
    \/ MainSingleStart
    \/ MainReposNoFiles
    \/ MainReposNext
    \/ Analyze
    \/ ReadOriginal
    \/ FileVanishes
    \/ Fix
    \/ Validate
    \/ TestSkipped
    \/ TestNoDocker
    \/ TestRun
    \/ Cleanup
    \/ Finalize
    \/ MainSingleFinish
    \/ MainReposRecord
    \/ MainReposExit

Spec == Init /\ [][Next]_vars

-----------------------------------------------------------------------------
(* optimizer.py (imported as dockerfile_optimizer): the parser *)

AGI == "apt-get install"
AGU == "apt-get update"
AGC == "apt-get clean"
NIR == "--no-install-recommends"
RMLISTS == "rm -rf /var/lib/apt/lists"
GLOB == "/*"
PIP == "pip install"
NCD == "--no-cache-dir"
AND == "&&"
SYNTAXTOK == "syntax=docker/dockerfile:1"

\* the line boundaries str.splitlines() knows among the tokens
LineBreaks == {LF, CR, FF}

\* contents.splitlines(); the empty piece between two adjacent boundaries is a
\* line that the loop of parse_dockerfile skips
RECURSIVE SplitLines(_)
SplitLines(s) ==
    LET hits == {i \in 1..Len(s) : s[i] \in LineBreaks}
    IN  IF s = <<>> THEN <<>>
        ELSE IF hits = {} THEN <<s>>
        ELSE <<UpTo(s, Min(hits) - 1)>> \o SplitLines(From(s, Min(hits)))

\* a loop that cuts at the first "#" whether or not a quote is open
CutCommentIgnoringQuotes(s, in_quote) ==
    LET hashes == {i \in 1..Len(s) : s[i] = HASH}
    IN  IF hashes = {} THEN s ELSE UpTo(s, Min(hashes) - 1)

\* the loop of remove_inline_comment
RECURSIVE CutComment(_, _)
CutComment(s, in_quote) ==
    IF s = <<>> THEN <<>>
    ELSE LET q == IF Head(s) = QUOTE THEN ~in_quote ELSE in_quote
         IN  IF Head(s) = HASH /\ ~q THEN <<>>
             ELSE <<Head(s)>> \o CutComment(Tail(s), q)

remove_inline_comment(s) == RStrip(CutComment(s, FALSE))

\* the words of the tokens that hold more than one word
FirstWord(tok) ==
    CASE tok \in {AGI, AGU, AGC} -> "apt-get"
      [] tok = PIP -> "pip"
      [] tok = RMLISTS -> "rm"
      [] OTHER -> tok

RestWords(tok) ==
    CASE tok = AGI -> <<"install">>
      [] tok = AGU -> <<"update">>
      [] tok = AGC -> <<"clean">>
      [] tok = PIP -> <<"install">>
      [] tok = RMLISTS -> <<"-rf /var/lib/apt/lists">>
      [] OTHER -> <<>>

\* str.upper() on the words an instruction is spelled with
Upper(tok) ==
    CASE tok = "run" -> "RUN"
      [] tok = "from" -> "FROM"
      [] tok = "add" -> "ADD"
      [] tok = "user" -> "USER"
      [] tok = "cmd" -> "CMD"
      [] tok = "apt-get" -> "APT-GET"
      [] tok = "pip" -> "PIP"
      [] tok = "rm" -> "RM"
      [] tok = "echo" -> "ECHO"
      [] tok = "a" -> "A"
      [] tok = "b" -> "B"
      [] tok = "c" -> "C"
      [] OTHER -> tok

Instruction(instr, value) == [instruction |-> instr, value |-> value]

\* a SplitInstruction that keeps the case of the first word
SplitInstructionNoUpper(current) ==
    LET first == current[1]
        rest == Tail(current)
    IN  IF RestWords(first) # <<>>
        THEN Instruction(FirstWord(first), RestWords(first) \o rest)
        ELSE Instruction(first, LStrip(rest))

\* a SplitInstruction that does not drop the blanks before the value
SplitInstructionKeepBlanks(current) ==
    LET first == current[1]
        rest == Tail(current)
    IN  IF RestWords(first) # <<>>
        THEN Instruction(Upper(FirstWord(first)), RestWords(first) \o rest)
        ELSE Instruction(Upper(first), rest)

\* lines 37-43: current.split(None, 1), the upper-cased first word and the rest.
\* A first token glued to the next one spells a word that is no instruction
\* analyse_instructions looks at.
SplitInstruction(current) ==
    LET first == current[1]
        rest == Tail(current)
        glued == RestWords(first) = <<>> /\ rest # <<>>
                 /\ rest[1] \notin Whitespace
        ws == {i \in 1..Len(rest) : rest[i] \in Whitespace}
    IN  IF RestWords(first) # <<>>
        THEN Instruction(Upper(FirstWord(first)), RestWords(first) \o rest)
        ELSE IF glued
        THEN Instruction("<word>",
                         IF ws = {} THEN <<>> ELSE LStrip(From(rest, Min(ws))))
        ELSE Instruction(Upper(first), LStrip(rest))

\* a continuation that joins the pieces without the blank
ContinueNoBlank(current, code) ==
    current \o RStrip(UpTo(code, Len(code) - 1))

\* line 34: current += stripped[:-1].rstrip() + " "
Continue(current, code) ==
    current \o RStrip(UpTo(code, Len(code) - 1)) \o <<SP>>

\* a logical line: the whole "# syntax=" line of line 18, or the text
\* accumulated in current at line 36
LogicalLine(syntax, line) == [syntax |-> syntax, line |-> line]

\* the loop of parse_dockerfile over the lines, lines 12-44: the logical
\* lines it emits an instruction for
RECURSIVE ParseLines(_, _, _)
ParseLines(lines, current, logical) ==
    IF lines = <<>> THEN logical
    ELSE
      LET stripped == Strip(Head(lines))
          more == Tail(lines)
          code == remove_inline_comment(stripped)
      IN  IF stripped = <<>> THEN ParseLines(more, current, logical)
          ELSE IF stripped[1] = HASH
          THEN IF Len(stripped) >= 3 /\ stripped[2] = SP
                  /\ stripped[3] = SYNTAXTOK
               THEN ParseLines(more, current,
                               Append(logical, LogicalLine(TRUE, stripped)))
               ELSE ParseLines(more, current, logical)
          ELSE IF code = <<>> THEN ParseLines(more, current, logical)
          ELSE IF code[Len(code)] = BS
          THEN ParseLines(more, Continue(current, code), logical)
          ELSE IF LStrip(current \o code) = <<>>
          THEN ParseLines(more, <<>>, logical)
          ELSE ParseLines(more, <<>>,
                   Append(logical,
                          LogicalLine(FALSE, LStrip(current \o code))))

LogicalLines(contents) == ParseLines(SplitLines(contents), <<>>, <<>>)

\* lines 18 and 37-43: the instruction of one logical line
EmitInstruction(l) ==
    IF l.syntax THEN Instruction("SYNTAX", l.line)
    ELSE SplitInstruction(l.line)

\* lines 9-45
parse_dockerfile(contents) ==
    [k \in 1..Len(LogicalLines(contents)) |->
        EmitInstruction(LogicalLines(contents)[k])]

-----------------------------------------------------------------------------
(* optimizer.py: the recommendations *)

MsgPinBase ==
    <<"Specify a fixed version tag or digest for the base image for reproducibility and security.">>
MsgNIR ==
    <<"Use ", NIR, " with apt-get to avoid unnecessary packages.">>
MsgClean ==
    <<"Clean apt ", "cache", "s (e.g., ", AGC, " && ", RMLISTS, "/*) to ",
      "reduce", " image ", "size", ".">>
MsgSameLayer ==
    <<"Run apt-get update and install in the same RUN ", "layer",
      " to improve caching and ", "size", ".">>
MsgPip ==
    <<"Use ", NCD, " with pip install to ", "reduce", " image ", "size", ".">>
MsgCurl ==
    <<"Avoid piping curl/wget directly to shell; download and verify scripts before execution.">>
MsgCombine ==
    <<"Combine multiple shell commands with '&&' in a single RUN to ",
      "reduce", " ", "layer", "s.">>
MsgAdd ==
    <<"Use ", "COPY", " instead of ", "ADD",
      " when not extracting archives to improve caching behaviour.">>
MsgMultiStage ==
    <<"Consider using ", "multi-stage",
      " builds to separate build-time dependencies from the final runtime image.">>
MsgUser ==
    <<"No USER directive found. Running as root can be risky; consider adding a non-root user.">>
MsgHealth ==
    <<"Consider adding a HEALTHCHECK instruction for improved reliability.">>

Rec(severity, idx, message) ==
    [severity |-> severity, instruction_index |-> idx, message |-> message]

\* "apt-get" in value
HasAptGet(value) == \E i \in 1..Len(value) : value[i] \in {AGI, AGU, AGC, "apt-get"}

\* "apt " in value
HasAptSpace(value) ==
    \E i \in 1..(Len(value) - 1) : value[i] = "apt" /\ value[i + 1] \in {SP, IND}

\* ":" in value, and value.strip().endswith(":latest")
TaggedImages ==
    {"ubuntu:22.04", "ubuntu:latest", "ubuntu@sha256:abc",
     "localhost:5000/ubuntu"}
HasColon(value) == \E i \in 1..Len(value) : value[i] \in TaggedImages
EndsWithLatest(value) ==
    Strip(value) # <<>> /\ Strip(value)[Len(Strip(value))] = "ubuntu:latest"

\* re.search(r"(curl|wget).*\|.*(sh|bash)", value)
PipesToShell(value) ==
    \E i, j, k \in 1..Len(value) :
        /\ i < j /\ j < k
        /\ value[i] \in {"curl", "wget"}
        /\ value[j] = "|"
        /\ value[k] \in {"sh", "bash"}

\* re.search(r"\.tar(\.gz|\.bz2|\.xz)?", value)
HasTar(value) == \E i \in 1..Len(value) : value[i] \in {"app.tar", "app.tar.gz"}

\* the recommendations of a RUN instruction without the one on apt caches
RunRecsWithoutClean(idx, value) ==
    (IF HasAptGet(value) \/ HasAptSpace(value)
     THEN (IF ~Has(value, NIR) THEN <<Rec("info", idx, MsgNIR)>> ELSE <<>>)
          \o (IF Has(value, AGU) /\ ~Has(value, AGI)
              THEN <<Rec("info", idx, MsgSameLayer)>> ELSE <<>>)
     ELSE <<>>)
    \o (IF Has(value, PIP) /\ ~Has(value, NCD)
        THEN <<Rec("info", idx, MsgPip)>> ELSE <<>>)
    \o (IF PipesToShell(value) THEN <<Rec("warning", idx, MsgCurl)>> ELSE <<>>)
    \o (IF ~Has(value, AND) THEN <<Rec("info", idx, MsgCombine)>> ELSE <<>>)

\* lines 62-100: the recommendations of one RUN instruction
RunRecs(idx, value) ==
    (IF HasAptGet(value) \/ HasAptSpace(value)
     THEN (IF ~Has(value, NIR) THEN <<Rec("info", idx, MsgNIR)>> ELSE <<>>)
          \o (IF ~Has(value, AGC) /\ ~Has(value, RMLISTS)
              THEN <<Rec("info", idx, MsgClean)>> ELSE <<>>)
          \o (IF Has(value, AGU) /\ ~Has(value, AGI)
              THEN <<Rec("info", idx, MsgSameLayer)>> ELSE <<>>)
     ELSE <<>>)
    \o (IF Has(value, PIP) /\ ~Has(value, NCD)
        THEN <<Rec("info", idx, MsgPip)>> ELSE <<>>)
    \o (IF PipesToShell(value) THEN <<Rec("warning", idx, MsgCurl)>> ELSE <<>>)
    \o (IF ~Has(value, AND) THEN <<Rec("info", idx, MsgCombine)>> ELSE <<>>)

\* lines 52-110: the recommendations of the instruction at 0-based index idx
InstructionRecs(idx, item) ==
    CASE item.instruction = "FROM" ->
            IF ~HasColon(item.value) \/ EndsWithLatest(item.value)
            THEN <<Rec("warning", idx, MsgPinBase)>> ELSE <<>>
      [] item.instruction = "RUN" -> RunRecs(idx, item.value)
      [] item.instruction = "ADD" ->
            IF ~HasTar(item.value) THEN <<Rec("info", idx, MsgAdd)>> ELSE <<>>
      [] OTHER -> <<>>

\* a loop that numbers the instructions from one
RECURSIVE PerInstructionRecsOneBased(_, _)
PerInstructionRecsOneBased(instructions, n) ==
    IF n = 0 THEN <<>>
    ELSE PerInstructionRecsOneBased(instructions, n - 1)
         \o InstructionRecs(n, instructions[n])

\* lines 52-110: the loop over enumerate(instructions)
RECURSIVE PerInstructionRecs(_, _)
PerInstructionRecs(instructions, n) ==
    IF n = 0 THEN <<>>
    ELSE PerInstructionRecs(instructions, n - 1)
         \o InstructionRecs(n - 1, instructions[n])

\* lines 48-130
analyse_instructions(instructions) ==
    LET run_lines == SelectSeq(instructions, LAMBDA it : it.instruction = "RUN")
        user_specified ==
            \E i \in 1..Len(instructions) : instructions[i].instruction = "USER"
        has_healthcheck ==
            \E i \in 1..Len(instructions) :
                instructions[i].instruction = "HEALTHCHECK"
    IN  PerInstructionRecs(instructions, Len(instructions))
        \o (IF Len(run_lines) > 3
               /\ \E i \in 1..Len(run_lines) : HasAptGet(run_lines[i].value)
            THEN <<Rec("suggestion", -1, MsgMultiStage)>> ELSE <<>>)
        \o (IF ~user_specified THEN <<Rec("warning", -1, MsgUser)>> ELSE <<>>)
        \o (IF ~has_healthcheck
            THEN <<Rec("suggestion", -1, MsgHealth)>> ELSE <<>>)

-----------------------------------------------------------------------------
(* size_optimization_pipeline.py: the mechanical patcher *)

SIZE_KEYWORDS ==
    <<"size", "layer", "cache", "no-cache", "multi-stage", AGC, RMLISTS,
      NIR, NCD, "COPY", "ADD", "reduce", "smaller", "minimize", "compress">>

\* str.lower() on the tokens whose case matters to SIZE_KEYWORDS
Lower(tok) ==
    CASE tok = "COPY" -> "copy"
      [] tok = "ADD" -> "add"
      [] tok = "RUN" -> "run"
      [] OTHER -> tok

\* keyword in tok, for the keywords that occur inside a longer token
InToken(keyword, tok) ==
    \/ keyword = tok
    \/ tok = NCD /\ keyword \in {"no-cache", "cache"}
    \/ tok = "no-cache" /\ keyword = "cache"

\* lines 60-67
filter_size_recommendations(recommendations) ==
    SelectSeq(recommendations,
              LAMBDA rec :
                  \E k \in 1..Len(SIZE_KEYWORDS) :
                      \E i \in 1..Len(rec.message) :
                          InToken(SIZE_KEYWORDS[k], Lower(rec.message[i])))

RECURSIVE Concat(_)
Concat(seqs) == IF seqs = <<>> THEN <<>> ELSE Head(seqs) \o Concat(Tail(seqs))

Patched(text, changes) == [text |-> text, changes |-> changes]

\* lines 82-90
AddNoInstallRecommends(optimized) ==
    LET lines == Split(optimized, LF)
        hit(line) == Has(line, AGI) /\ ~Has(line, NIR)
        new_lines == [i \in 1..Len(lines) |->
                         IF hit(lines[i])
                         THEN ReplaceTok(lines[i], AGI, <<AGI, SP, NIR>>)
                         ELSE lines[i]]
        notes == [i \in 1..Len(lines) |->
                     IF hit(lines[i])
                     THEN <<"Added --no-install-recommends to apt-get install">>
                     ELSE <<>>]
    IN  Patched(Join(new_lines, LF), Concat(notes))

\* lines 92-105
AddAptCleanup(optimized) ==
    LET lines == Split(optimized, LF)
        n == Len(lines)
        \* lines[max(0, i-2):min(len(lines), i+3)] for the 1-based index i
        window(i) == {j \in 1..n : i - 2 <= j /\ j <= i + 2}
        hit(i) == /\ Has(lines[i], AGI) /\ Has(lines[i], AND)
                  /\ ~\E j \in window(i) : Has(lines[j], RMLISTS)
        new_line(i) ==
            LET stripped == RStrip(lines[i])
            IN  IF stripped[Len(stripped)] = BS
                THEN stripped \o <<LF, IND, AND, SP, RMLISTS, GLOB, SP, BS>>
                ELSE IF stripped[Len(stripped)] # AND
                THEN stripped \o <<SP, AND, SP, RMLISTS, GLOB>>
                ELSE lines[i]
        new_lines == [i \in 1..n |-> IF hit(i) THEN new_line(i) ELSE lines[i]]
        notes == [i \in 1..n |->
                     IF hit(i) THEN <<"Added apt cache cleanup">> ELSE <<>>]
    IN  Patched(Join(new_lines, LF), Concat(notes))

\* lines 107-115
AddNoCacheDir(optimized) ==
    LET lines == Split(optimized, LF)
        hit(line) == Has(line, PIP) /\ ~Has(line, NCD)
        new_lines == [i \in 1..Len(lines) |->
                         IF hit(lines[i])
                         THEN ReplaceTok(lines[i], PIP, <<PIP, SP, NCD>>)
                         ELSE lines[i]]
        notes == [i \in 1..Len(lines) |->
                     IF hit(lines[i])
                     THEN <<"Added --no-cache-dir to pip install">>
                     ELSE <<>>]
    IN  Patched(Join(new_lines, LF), Concat(notes))

\* lines 79-115: the body of the loop for one recommendation
ApplyRec(message, state) ==
    LET s1 == IF Has(message, NIR) /\ Has(state.text, AGI)
              THEN AddNoInstallRecommends(state.text)
              ELSE Patched(state.text, <<>>)
        s2 == IF Has(message, AGC) THEN AddAptCleanup(s1.text)
              ELSE Patched(s1.text, <<>>)
        s3 == IF Has(message, NCD) /\ Has(s2.text, PIP)
              THEN AddNoCacheDir(s2.text)
              ELSE Patched(s2.text, <<>>)
    IN  Patched(s3.text,
                state.changes \o s1.changes \o s2.changes \o s3.changes)

RECURSIVE ApplyRecs(_, _)
ApplyRecs(size_recs, state) ==
    IF size_recs = <<>> THEN state
    ELSE ApplyRecs(Tail(size_recs), ApplyRec(Head(size_recs).message, state))

\* lines 70-120
apply_static_size_optimizations(dockerfile_content) ==
    LET instructions == parse_dockerfile(dockerfile_content)
        all_recs == analyse_instructions(instructions)
        size_recs == filter_size_recommendations(all_recs)
        out == ApplyRecs(size_recs, Patched(dockerfile_content, <<>>))
    IN  IF out.text = dockerfile_content
        THEN Patched(dockerfile_content, <<>>)
        ELSE out

-----------------------------------------------------------------------------
(* The patcher specification: the patcher applied to a text and then to the
   text it returned *)

MaxLines == 3

\* the lines the input texts are made of
Segments ==
    { <<"CMD", SP, AGI, SP, AND, SP, "x">>,
      <<"RUN", SP, "echo", SP, "apt">>,
      <<"RUN", SP, AGU, SP, NIR>>,
      <<"RUN", SP, AGI, SP, "x", SP, AND, SP, BS>>,
      <<"RUN", SP, PIP, SP, "x">>,
      <<HASH, SP, AGI, SP, "x", SP, AND, SP, BS>> }

\* the line boundaries of the input texts
Breaks == {LF, FF}

RECURSIVE TextsOf(_)
TextsOf(n) ==
    IF n = 1 THEN Segments
    ELSE {t \o <<b>> \o s : t \in TextsOf(n - 1), b \in Breaks, s \in Segments}

PatchInputs == UNION {TextsOf(n) : n \in 1..MaxLines}

PipelineOff ==
    /\ pc = "off"
    /\ mode = "single"
    /\ skip_test = TRUE
    /\ docker_available = FALSE
    /\ output_given = FALSE
    /\ disk = NoFile
    /\ outFile = NoFile
    /\ original_analysis = NoAnalysis
    /\ original_content = <<>>
    /\ fixed_content = <<>>
    /\ stages = [n \in StageNames |-> AbsentStage]
    /\ success = "absent"
    /\ fix_result = NoFix
    /\ test_image = ""
    /\ calls = <<>>
    /\ all_results = <<>>
    /\ remaining = 0
    /\ exit_code = -1

InitPatch ==
    /\ PipelineOff
    /\ FuncOff
    /\ px \in PatchInputs
    /\ py = Patched(<<>>, <<>>)
    /\ pz = Patched(<<>>, <<>>)
    /\ ppc = "input"
    /\ ParserOff
    /\ BatchOff

PatchOnce ==
    /\ ppc = "input"
    /\ py' = apply_static_size_optimizations(px)
    /\ ppc' = "once"
    /\ UNCHANGED <<px, pz>>
    /\ UNCHANGED <<funcVars, pipelineVars, parserVars, batchVars>>

PatchTwice ==
    /\ ppc = "once"
    /\ pz' = apply_static_size_optimizations(py.text)
    /\ ppc' = "twice"
    /\ UNCHANGED <<px, py>>
    /\ UNCHANGED <<funcVars, pipelineVars, parserVars, batchVars>>

NextPatch ==
    \/ PatchOnce
    \/ PatchTwice

SpecPatch == InitPatch /\ [][NextPatch]_vars

-----------------------------------------------------------------------------
(* The parser specification: a text is parsed, the instructions are analysed
   and written back as text, and that text is parsed again *)

MaxParseLines == 2

\* the lines the texts given to the parser are made of
ParseSegments ==
    { <<"RUN", SP, "echo", SP, "a", SP, BS>>,
      <<IND, "b", SP, BS>>,
      <<IND, "c">>,
      <<"RUN", SP, "echo", SP, "a", HASH, "b", SP, BS>>,
      <<"run", SP, SP, AGU, SP, "|", SP, PIP>>,
      <<"CMD">>,
      <<"ADD", SP, "app.tar", SP, "/app">>,
      <<"ADD", SP, "src", SP, "/app">>,
      <<"USER", SP, "app">>,
      <<HASH, SP, SYNTAXTOK>>,
      <<"FROM", SP, "ubuntu", SP, SP>>,
      <<"FROM", SP, "ubuntu:22.04">>,
      <<"FROM", SP, "ubuntu@sha256:abc">>,
      <<"FROM", SP, "ubuntu:latest", SP, "AS", SP, "build">>,
      <<"FROM", SP, "localhost:5000/ubuntu">>,
      <<"FROM", SP, "--platform=linux/amd64", SP, "ubuntu">>,
      <<"RUN", SP, "echo", SP, QUOTE, "a", HASH, "b", QUOTE, SP, HASH, SP, "c">>,
      <<"RUN", SP, QUOTE, "a", SP, HASH, "b">> }

\* `RUN foo # comment` and `RUN foo 'a#b'`
CommentExample == <<"RUN", SP, "foo", SP, HASH, SP, "comment">>
QuotedExample == <<"RUN", SP, "foo", SP, QUOTE, "a", HASH, "b", QUOTE>>

\* `FROM ubuntu\nRUN apt-get update && apt-get install -y curl\n`
EndToEndExample ==
    <<"FROM", SP, "ubuntu", LF,
      "RUN", SP, AGU, SP, AND, SP, AGI, SP, "-y", SP, "curl", LF>>

\* a RUN written over three physical lines
ContinuedExample ==
    <<"RUN", SP, "echo", SP, "a", SP, BS, LF, IND, "b", SP, BS, LF, IND, "c">>

RECURSIVE ParseTextsOf(_)
ParseTextsOf(n) ==
    IF n = 1 THEN ParseSegments
    ELSE {t \o <<LF>> \o s : t \in ParseTextsOf(n - 1), s \in ParseSegments}

ParseInputs ==
    UNION {ParseTextsOf(n) : n \in 1..MaxParseLines}
    \cup {CommentExample, QuotedExample, EndToEndExample, ContinuedExample}

\* each instruction written back as the line `OPCODE value`
Serialize(instructions) ==
    Join([k \in 1..Len(instructions) |->
             <<instructions[k].instruction, SP>> \o instructions[k].value],
         LF)

InitParse ==
    /\ PipelineOff
    /\ FuncOff
    /\ BatchOff
    /\ px \in ParseInputs
    /\ py = Patched(<<>>, <<>>)
    /\ pz = Patched(<<>>, <<>>)
    /\ ppc = "text"
    /\ ParserOff

Parse ==
    /\ ppc = "text"
    /\ pinstr' = parse_dockerfile(px)
    /\ ppc' = "parsed"
    /\ UNCHANGED <<px, py, pz, precs, pround>>
    /\ UNCHANGED <<funcVars, pipelineVars, batchVars>>

Analyse ==
    /\ ppc = "parsed"
    /\ precs' = analyse_instructions(pinstr)
    /\ ppc' = "analysed"
    /\ UNCHANGED <<px, py, pz, pinstr, pround>>
    /\ UNCHANGED <<funcVars, pipelineVars, batchVars>>

Reparse ==
    /\ ppc = "analysed"
    /\ pround' = parse_dockerfile(Serialize(pinstr))
    /\ ppc' = "reparsed"
    /\ UNCHANGED <<px, py, pz, pinstr, precs>>
    /\ UNCHANGED <<funcVars, pipelineVars, batchVars>>

\* test_dockerfile on the text, docker being available, no file at
\* dockerfile_path and the temporary file writable
TestText ==
    /\ ppc = "reparsed"
    /\ \E build \in BuildOutcomes, run \in RunOutcomes :
          hout' = TestDockerfile(TRUE, px, NoFile, TRUE, build, run)
    /\ ppc' = "tested"
    /\ UNCHANGED <<px, py, pz, pinstr, precs, pround, hin, hpc>>
    /\ UNCHANGED <<pipelineVars, batchVars>>

NextParse ==
    \/ Parse
    \/ Analyse
    \/ Reparse
    \/ TestText

SpecParse == InitParse /\ [][NextParse]_vars

-----------------------------------------------------------------------------
(* The batch runners: llm_size_report.main, llm_scorecard.main and
   size_optimization_pipeline.main *)

MaxRepos == 2
MaxDockerfiles == 2

\* the two runners whose loop is "try: records.extend(run_for_repo) finally:"
LLMRunners == {"llm_size_report", "llm_scorecard"}

BatchRunners == LLMRunners \cup {"size_optimization_pipeline"}

\* what _record_single / _score_single does on one Dockerfile: it returns a
\* record without error, a record with llm_error, fix_error or
\* validation_error, or an exception leaves it (analyze_dockerfile catches
\* FileNotFoundError only; read_text, the fixer and the validator are called
\* outside any try)
FileOutcomes == {"none", "llm_error", "fix_error", "validation_error", "raised"}

\* what process_repository does on one repository: it returns a result
\* without error or with one, or an exception leaves it
RepositoryOutcomes == {"none", "error", "raised"}

Record(repo, error) == [repo |-> repo, error |-> error]

\* run_for_repo: one record per Dockerfile found, one "No Dockerfiles found"
\* record when there is none
RunForRepoRecords(repo, files) ==
    IF files = <<>> THEN <<Record(repo, "llm_error")>>
    ELSE [k \in 1..Len(files) |-> Record(repo, files[k])]

Raises(files) == \E k \in 1..Len(files) : files[k] = "raised"

InitBatch ==
    /\ PipelineOff
    /\ FuncOff
    /\ PatcherOff
    /\ ParserOff
    /\ brunner \in BatchRunners
    /\ \E n \in 0..MaxRepos : bqueue = [i \in 1..n |-> i]
    /\ bidx = 0
    /\ brecords = <<>>
    /\ bpc = "loop"

\* llm_size_report.main 209-216 and llm_scorecard.main: one turn of the loop.
\* An exception of run_for_repo passes the finally clause and leaves main.
RunForRepo ==
    /\ bpc = "loop"
    /\ brunner \in LLMRunners
    /\ bidx < Len(bqueue)
    /\ \E n \in 0..MaxDockerfiles :
         \E files \in [1..n -> FileOutcomes] :
            IF Raises(files)
            THEN /\ bpc' = "aborted"
                 /\ UNCHANGED <<bidx, brecords>>
            ELSE /\ brecords' =
                        brecords \o RunForRepoRecords(bqueue[bidx + 1], files)
                 /\ bidx' = bidx + 1
                 /\ UNCHANGED bpc
    /\ UNCHANGED <<brunner, bqueue, funcVars, pipelineVars,
                   patcherVars, parserVars>>

\* size_optimization_pipeline.main 516-536: one turn of the loop. An
\* exception of process_repository is caught and recorded.
ProcessRepository ==
    /\ bpc = "loop"
    /\ brunner = "size_optimization_pipeline"
    /\ bidx < Len(bqueue)
    /\ \E outcome \in RepositoryOutcomes :
          brecords' = Append(brecords,
                             Record(bqueue[bidx + 1],
                                    IF outcome = "raised" THEN "error"
                                    ELSE outcome))
    /\ bidx' = bidx + 1
    /\ UNCHANGED <<bpc, brunner, bqueue, funcVars, pipelineVars,
                   patcherVars, parserVars>>

\* export_size_report / export_scorecard / the csv writer after the loop
WriteReport ==
    /\ bpc = "loop"
    /\ bidx = Len(bqueue)
    /\ bpc' = "written"
    /\ UNCHANGED <<brunner, bqueue, bidx, brecords, funcVars, pipelineVars,
                   patcherVars,
                   parserVars>>

NextBatch == RunForRepo \/ ProcessRepository \/ WriteReport

SpecBatch == InitBatch /\ [][NextBatch]_vars

-----------------------------------------------------------------------------
(* DockerfileAnalyzer.dynamic_llm_analysis on the text of a reply.  The reply
   is a sequence of JSON tokens, fences and plain text. *)

LBRACE == "{"
RBRACE == "}"
LBRACK == "["
RBRACK == "]"
COMMA == ","
KEY_SR == "'security_risks':"
KEY_PI == "'performance_issues':"
KEY_BP == "'best_practices_missing':"
JSTR == "'x'"
JNUM == "5"
JNULL == "null"
TXT == "Here is the analysis"
FENCEJSON == "<fence>json"

JsonKeys == {KEY_SR, KEY_PI, KEY_BP}
Fences == {FENCE, FENCEJSON}

Rep(tok, n) == [k \in 1..n |-> tok]

Count(s, tok) == Cardinality({i \in 1..Len(s) : s[i] = tok})

\* s.rstrip(tok)
RECURSIVE RStripTok(_, _)
RStripTok(s, tok) ==
    IF s # <<>> /\ s[Len(s)] = tok THEN RStripTok(UpTo(s, Len(s) - 1), tok)
    ELSE s

\* what a json decoder gives on a prefix of s: the kind of the value, the kind
\* of the value of each key when it is an object, and the text left
JsonValue(kind, fields, rest) ==
    [ok |-> TRUE, kind |-> kind, fields |-> fields, rest |-> rest]

JsonFail == [ok |-> FALSE, kind |-> "none", fields |-> <<>>, rest |-> <<>>]

RECURSIVE JsonParseValue(_)
RECURSIVE JsonParseItems(_)
RECURSIVE JsonParseMembers(_, _)

JsonParseItems(s) ==
    LET v == JsonParseValue(LStrip(s))
        after == LStrip(v.rest)
    IN  IF ~v.ok \/ after = <<>> THEN JsonFail
        ELSE IF after[1] = COMMA THEN JsonParseItems(Tail(after))
        ELSE IF after[1] = RBRACK THEN JsonValue("list", <<>>, Tail(after))
        ELSE JsonFail

JsonParseMembers(s, fields) ==
    LET t == LStrip(s)
    IN  IF t = <<>> \/ t[1] \notin JsonKeys THEN JsonFail
        ELSE LET v == JsonParseValue(LStrip(Tail(t)))
                 after == LStrip(v.rest)
                 seen == Append(fields, <<t[1], v.kind>>)
             IN  IF ~v.ok \/ after = <<>> THEN JsonFail
                 ELSE IF after[1] = COMMA
                 THEN JsonParseMembers(Tail(after), seen)
                 ELSE IF after[1] = RBRACE
                 THEN JsonValue("object", seen, Tail(after))
                 ELSE JsonFail

JsonParseValue(s) ==
    IF s = <<>> THEN JsonFail
    ELSE CASE s[1] = JSTR -> JsonValue("str", <<>>, Tail(s))
           [] s[1] = JNUM -> JsonValue("num", <<>>, Tail(s))
           [] s[1] = JNULL -> JsonValue("null", <<>>, Tail(s))
           [] s[1] = LBRACK ->
                 IF LStrip(Tail(s)) # <<>> /\ LStrip(Tail(s))[1] = RBRACK
                 THEN JsonValue("list", <<>>, Tail(LStrip(Tail(s))))
                 ELSE JsonParseItems(Tail(s))
           [] s[1] = LBRACE ->
                 IF LStrip(Tail(s)) # <<>> /\ LStrip(Tail(s))[1] = RBRACE
                 THEN JsonValue("object", <<>>, Tail(LStrip(Tail(s))))
                 ELSE JsonParseMembers(Tail(s), <<>>)
           [] OTHER -> JsonFail

\* json.loads: the whole text is one value (JSONDecodeError otherwise)
JsonLoads(s) ==
    LET v == JsonParseValue(Strip(s))
    IN  IF v.ok /\ Strip(v.rest) = <<>> THEN v ELSE JsonFail

\* dict.get(key, []): the kind of the value of the key, a list when absent
GetKind(fields, key) ==
    LET hits == {i \in 1..Len(fields) : fields[i][1] = key}
    IN  IF hits = {} THEN "list" ELSE fields[Max(hits)][2]

\* lines 148-157: the text between the first fence and the next one
CutFences(cleaned) ==
    LET jsons == {i \in 1..Len(cleaned) : cleaned[i] = FENCEJSON}
        fences == {i \in 1..Len(cleaned) : cleaned[i] \in Fences}
        start == IF jsons # {} THEN Min(jsons) ELSE Min(fences)
        ends == {i \in fences : i > start}
    IN  IF fences = {} \/ ends = {} THEN cleaned
        ELSE Strip(SubSeq(cleaned, start + 1, Min(ends) - 1))

\* lines 159-176: a text that opens with a brace is cut after the brace that
\* closes it, or closed when none does
Balance(s, i) ==
    Cardinality({j \in 1..i : s[j] = LBRACE})
        - Cardinality({j \in 1..i : s[j] = RBRACE})

CloseBraces(cleaned) ==
    LET closes == {i \in 1..Len(cleaned) :
                      cleaned[i] = RBRACE /\ Balance(cleaned, i) = 0}
        brace_count == Balance(cleaned, Len(cleaned))
        closed == cleaned \o <<LF>> \o Rep(RBRACE, brace_count)
        bracket_count == Count(closed, LBRACK) - Count(closed, RBRACK)
    IN  IF cleaned = <<>> \/ cleaned[1] # LBRACE THEN cleaned
        ELSE IF closes # {} THEN UpTo(cleaned, Min(closes))
        ELSE IF bracket_count > 0
        THEN RStripTok(closed, RBRACE) \o Rep(RBRACK, bracket_count)
                 \o <<RBRACE>>
        ELSE closed

\* lines 213-229 and 231-247: the array that follows a key in the reply is
\* decoded by itself
RecoversArray(response, key) ==
    LET keys == {i \in 1..Len(response) : response[i] = key}
        opens == {i \in 1..Len(response) :
                     response[i] = LBRACK /\ keys # {} /\ i > Min(keys)}
        array_start == Min(opens)
        depth(i) ==
            Cardinality({j \in array_start..i : response[j] = LBRACK})
                - Cardinality({j \in array_start..i : response[j] = RBRACK})
        ends == {i \in array_start..Len(response) :
                    response[i] = RBRACK /\ depth(i) = 0}
    IN  /\ keys # {}
        /\ opens # {}
        /\ ends # {}
        /\ JsonLoads(SubSeq(response, array_start, Min(ends))).ok

AnalysisResult(raised, succeeded, has_error, raw_response) ==
    [raised |-> raised, success |-> succeeded, has_error |-> has_error,
     raw_response |-> raw_response]

\* lines 119-305
dynamic_llm_analysis(reply) ==
    LET response == IF Strip(reply) = <<>> THEN <<LBRACE, RBRACE>> ELSE reply
        cleaned_response == CloseBraces(CutFences(Strip(response)))
        llm_data == JsonLoads(cleaned_response)
        no_len == {"num", "null"}
    IN  IF StartsWithApiError(reply) \/ StartsWithError(reply)
        THEN AnalysisResult(FALSE, FALSE, TRUE, reply)
        ELSE IF ~llm_data.ok
        THEN IF RecoversArray(response, KEY_SR)
                \/ RecoversArray(response, KEY_PI)
             THEN AnalysisResult(FALSE, TRUE, FALSE, response)
             ELSE AnalysisResult(FALSE, FALSE, TRUE, response)
        ELSE IF llm_data.kind # "object"
        THEN AnalysisResult(TRUE, FALSE, FALSE, <<>>)
        ELSE IF \E key \in JsonKeys : GetKind(llm_data.fields, key) \in no_len
        THEN AnalysisResult(TRUE, FALSE, FALSE, <<>>)
        ELSE AnalysisResult(FALSE, TRUE, FALSE, response)

-----------------------------------------------------------------------------
(* The reply specification: dynamic_llm_analysis applied to a reply *)

MaxTruncated == 3

\* complete replies
FullReplies ==
    { <<LBRACE, KEY_SR, SP, LBRACK, JSTR, RBRACK, COMMA, LF, KEY_PI, SP,
        LBRACK, JSTR, COMMA, SP, JSTR, RBRACK, COMMA, LF, KEY_BP, SP, LBRACK,
        RBRACK, RBRACE>>,
      <<LBRACE, KEY_SR, SP, LBRACK, JSTR, RBRACK, RBRACE>>,
      <<LBRACE, RBRACE>>,
      <<LBRACK, JSTR, RBRACK>>,
      <<JNULL>>,
      <<JSTR>>,
      <<JNUM>>,
      <<TXT>>,
      <<LBRACE, KEY_SR, SP, JNUM, RBRACE>>,
      <<LBRACE, KEY_SR, SP, JSTR, RBRACE>>,
      <<LBRACE, KEY_PI, SP, LBRACK, JSTR, RBRACK, COMMA, KEY_BP, SP, JNULL,
        RBRACE>>,
      <<LBRACE, KEY_SR, SP, LBRACK, LBRACK, JSTR, RBRACK, RBRACK, COMMA,
        KEY_PI, SP, LBRACE, KEY_BP, SP, LBRACK, RBRACK, RBRACE, RBRACE>>,
      <<LBRACE, KEY_SR, SP, LBRACK, JSTR, RBRACK, COMMA, KEY_PI, SP, LBRACK,
        LBRACE, KEY_BP, JSTR, RBRACE, COMMA, JSTR, RBRACK, RBRACE>> }

\* what surrounds the JSON text in a reply
Envelopes ==
    { <<(<<>>), (<<>>)>>,
      <<(<<FENCEJSON, LF>>), (<<LF, FENCE>>)>>,
      <<(<<FENCE, LF>>), (<<LF, FENCE>>)>>,
      <<(<<TXT, LF, FENCEJSON, LF>>), (<<LF, FENCE, LF, TXT>>)>>,
      <<(<<FENCEJSON, LF>>), (<<>>)>>,
      <<(<<>>), (<<SP, TXT>>)>>,
      <<(<<TXT, SP>>), (<<>>)>>,
      <<(<<SP, LF>>), (<<LF>>)>> }

Replies ==
    { e[1] \o UpTo(full, Len(full) - cut) \o e[2] :
        e \in Envelopes,
        full \in FullReplies,
        cut \in 0..MaxTruncated }
    \cup { <<>>, NoResponse, <<"LLM API error:", SP, "429">> }

AllOff == PipelineOff /\ PatcherOff /\ ParserOff /\ BatchOff

InitReply ==
    /\ AllOff
    /\ hin \in Replies
    /\ hout = <<>>
    /\ hpc = "reply"

AnalyseReply ==
    /\ hpc = "reply"
    /\ hout' = dynamic_llm_analysis(hin)
    /\ hpc' = "analysed"
    /\ UNCHANGED <<hin, pipelineVars, patcherVars, parserVars, batchVars>>

NextReply == AnalyseReply

SpecReply == InitReply /\ [][NextReply]_vars

-----------------------------------------------------------------------------
(* DockerfileValidator._calculate_improvements.  A snapshot is a dict from
   score names to whole numbers; percent_change is kept in tenths of a
   percent. *)

score_keys ==
    <<"overall_score", "security_score", "efficiency_score",
      "best_practices_score", "complexity_score", "maintainability_score">>

\* dict.get(key, 0)
GetOrZero(scores, key) == IF key \in DOMAIN scores THEN scores[key] ELSE 0

\* round(x / y, 1) in tenths, for y > 0
RoundedTenths(x, y) ==
    IF x >= 0 THEN (2 * 10 * x + y) \div (2 * y)
    ELSE -((2 * 10 * (-x) + y) \div (2 * y))

\* lines 229-240: the entry of one key
Improvement(original, fixed) ==
    [original |-> original,
     fixed |-> fixed,
     improvement |-> fixed - original,
     percent_change |-> IF original > 0
                        THEN RoundedTenths((fixed - original) * 100, original)
                        ELSE 0]

\* lines 217-242
calculate_improvements(original_scores, fixed_scores) ==
    [key \in {score_keys[i] : i \in 1..Len(score_keys)} |->
        Improvement(GetOrZero(original_scores, key),
                    GetOrZero(fixed_scores, key))]

-----------------------------------------------------------------------------
(* The comparator specification: _calculate_improvements applied to a before
   and an after snapshot *)

MaxScoreLevel == 3

ScoreLevels == {25 * k : k \in 0..MaxScoreLevel}

AllScoreKeys == {score_keys[i] : i \in 1..Len(score_keys)}

\* the score names a snapshot holds
KeySets ==
    { AllScoreKeys,
      {},
      AllScoreKeys \ {"overall_score"},
      {"overall_score"},
      AllScoreKeys \ {"complexity_score", "maintainability_score"} }

\* a snapshot: the first of its keys holds one level, the others another
Snapshots ==
    { [key \in keys |-> IF key = "overall_score" THEN a ELSE b] :
        keys \in KeySets, a \in ScoreLevels, b \in {0, 50} }

InitCompare ==
    /\ AllOff
    /\ \E original \in Snapshots, fixed \in Snapshots :
          hin = [original_scores |-> original, fixed_scores |-> fixed]
    /\ hout = <<>>
    /\ hpc = "snapshots"

Compare ==
    /\ hpc = "snapshots"
    /\ hout' = calculate_improvements(hin.original_scores, hin.fixed_scores)
    /\ hpc' = "compared"
    /\ UNCHANGED <<hin, pipelineVars, patcherVars, parserVars, batchVars>>

NextCompare == Compare

SpecCompare == InitCompare /\ [][NextCompare]_vars

-----------------------------------------------------------------------------
(* SizeReportRunner._record_single with the dicts of analyze_dockerfile and
   validate_fixes.  A dict is a function from its keys; an Optional value is
   a sequence of no or one element. *)

\* dict.get(key, {})
GetOrEmpty(dict, key) == IF key \in DOMAIN dict THEN dict[key] ELSE <<>>

\* dict.get(key): None when the key is absent
GetOptional(dict, key) == IF key \in DOMAIN dict THEN <<dict[key]>> ELSE <<>>

\* analyze_dockerfile 359-379: the dict of an analysis of a file that was
\* read; wasted is the estimate the LLM gave
AnalysisDict(llm_success, wasted) ==
    [dockerfile_path |-> "Dockerfile",
     llm_analysis |-> [success |-> llm_success,
                       data |-> [estimated_wasted_space_kb |-> wasted]],
     scores |-> [overall_score |-> 100,
                 efficiency_score |-> 100,
                 security_score |-> 100,
                 best_practices_score |-> 100,
                 complexity_score |-> 5,
                 maintainability_score |-> 5,
                 estimated_wasted_space_kb |-> wasted]]

\* analyze_dockerfile 311-315: the file was not found
AnalysisErrorDict == [error |-> "Dockerfile not found", scores |-> <<>>]

\* validate_fixes 86-215, once the fixed text is analysed
ValidationDict(analysis, fixed_analysis) ==
    LET original_scores == GetOrEmpty(analysis, "scores")
        failed == [success |-> FALSE,
                   error |-> "validation failed",
                   original_scores |-> original_scores,
                   fixed_scores |-> original_scores,
                   improvements |-> <<>>,
                   issues_comparison |-> <<>>,
                   validation_failed |-> TRUE]
    IN  IF "error" \in DOMAIN fixed_analysis THEN failed
        ELSE IF ~fixed_analysis.llm_analysis.success THEN failed
        ELSE [success |-> TRUE,
              original_scores |-> original_scores,
              fixed_scores |-> fixed_analysis.scores,
              improvements |->
                  calculate_improvements(original_scores,
                                         fixed_analysis.scores),
              issues_comparison |-> <<>>,
              fixed_analysis |-> fixed_analysis]

SizeRecord(original_kb, fixed_kb, delta_kb, llm_err, fix_err, val_err) ==
    [original_wasted_kb |-> original_kb,
     fixed_wasted_kb |-> fixed_kb,
     wasted_space_delta_kb |-> delta_kb,
     llm_error |-> llm_err,
     fix_error |-> fix_err,
     validation_error |-> val_err]

\* lines 101-105
metric_fields(metrics) == GetOptional(metrics, "estimated_wasted_space_kb")

\* lines 64-99
record_single(analysis, fix_success, fixed_analysis) ==
    LET llm_analysis == GetOrEmpty(analysis, "llm_analysis")
        original_kb ==
            metric_fields(GetOrEmpty(analysis, "size_metrics"))
        validation == ValidationDict(analysis, fixed_analysis)
    IN  IF "success" \notin DOMAIN llm_analysis \/ ~llm_analysis.success
        THEN SizeRecord(original_kb, <<>>, <<>>, TRUE, FALSE, FALSE)
        ELSE IF ~fix_success
        THEN SizeRecord(original_kb, <<>>, <<>>, FALSE, TRUE, FALSE)
        ELSE SizeRecord(original_kb,
                        metric_fields(GetOrEmpty(validation, "fixed_metrics")),
                        GetOptional(GetOrEmpty(validation, "improvements"),
                                    "wasted_space_delta_kb"),
                        FALSE, FALSE, ~validation.success)

-----------------------------------------------------------------------------
(* The report-row specification: _record_single applied to one build file *)

MaxWasteLevel == 2

WasteLevels == {100 * k : k \in 0..MaxWasteLevel}

OriginalAnalyses ==
    {AnalysisDict(ok, w) : ok \in BOOLEAN, w \in WasteLevels}
        \cup {AnalysisErrorDict}

FixedAnalyses == OriginalAnalyses

InitRecord ==
    /\ AllOff
    /\ \E original \in OriginalAnalyses, fixed \in FixedAnalyses,
          fix_success \in BOOLEAN :
          hin = [original_analysis |-> original,
                 fix_success |-> fix_success,
                 fixed_analysis |-> fixed]
    /\ hout = <<>>
    /\ hpc = "file"

RecordSingle ==
    /\ hpc = "file"
    /\ hout' = record_single(hin.original_analysis, hin.fix_success,
                             hin.fixed_analysis)
    /\ hpc' = "recorded"
    /\ UNCHANGED <<hin, pipelineVars, patcherVars, parserVars, batchVars>>

NextRecord == RecordSingle

SpecRecord == InitRecord /\ [][NextRecord]_vars

-----------------------------------------------------------------------------
(* clone_repo and the working directories of a batch run.  A URL is an owner
   and a repository name; a directory under the clone dir holds the clone of
   one owner's repository or is absent (""). *)

MaxUrls == 3

Owners == {"alice", "bob"}
RepoNames == {"app", "web"}

Url(owner, name) == [owner |-> owner, name |-> name]

Urls == {Url(o, n) : o \in Owners, n \in RepoNames}

\* url.rstrip("/").split("/")[-1]
repo_name(url) == url.name

\* clone_repo: the directory of the URL, and what it holds afterwards; an
\* existing directory is returned as it is, a failed clone leaves none
clone_repo(url, dirs, cloned) ==
    IF dirs[repo_name(url)] # "" THEN dirs
    ELSE IF cloned THEN [dirs EXCEPT ![repo_name(url)] = url.owner]
    ELSE dirs

\* the runs: size_optimization_pipeline keeps every clone, the LLM runners
\* remove it after the repository unless --keep-cloned is given
CloneRuns ==
    { [runner |-> "size_optimization_pipeline", keep_cloned |-> TRUE],
      [runner |-> "llm_size_report", keep_cloned |-> FALSE],
      [runner |-> "llm_size_report", keep_cloned |-> TRUE],
      [runner |-> "llm_scorecard", keep_cloned |-> FALSE],
      [runner |-> "llm_scorecard", keep_cloned |-> TRUE] }

\* the lists of distinct URLs
UrlLists ==
    UNION { {l \in [1..n -> Urls] : \A i, j \in 1..n : i # j => l[i] # l[j]} :
              n \in 0..MaxUrls }

InitClone ==
    /\ AllOff
    /\ \E run \in CloneRuns, urls \in UrlLists :
          hin = [run |-> run, urls |-> urls]
    /\ hout = [idx |-> 0,
               dirs |-> [n \in RepoNames |-> ""],
               saved |-> [n \in RepoNames |-> ""],
               log |-> <<>>]
    /\ hpc = "loop"

\* one turn of the loop of main: the repository is cloned, analysed from the
\* directory clone_repo returned, its build file is saved under
\* <repo_name>_<file name> (size_optimization_pipeline 339-345) and the
\* clone is removed (llm_size_report 214-216)
ProcessUrl ==
    /\ hpc = "loop"
    /\ hout.idx < Len(hin.urls)
    /\ \E cloned \in BOOLEAN :
          LET url == hin.urls[hout.idx + 1]
              dirs == clone_repo(url, hout.dirs, cloned)
              from == dirs[repo_name(url)]
              saves == hin.run.runner = "size_optimization_pipeline"
                       /\ from # ""
          IN  hout' = [idx |-> hout.idx + 1,
                       dirs |-> IF hin.run.keep_cloned THEN dirs
                                ELSE [dirs EXCEPT ![repo_name(url)] = ""],
                       saved |-> IF saves
                                 THEN [hout.saved EXCEPT ![repo_name(url)] =
                                           url.owner]
                                 ELSE hout.saved,
                       log |-> Append(hout.log,
                                      [url |-> url,
                                       dir |-> repo_name(url),
                                       analysed_from |-> from,
                                       overwrote |->
                                           IF saves
                                           THEN hout.saved[repo_name(url)]
                                           ELSE ""])]
    /\ UNCHANGED <<hin, hpc, pipelineVars, patcherVars, parserVars, batchVars>>

FinishClones ==
    /\ hpc = "loop"
    /\ hout.idx = Len(hin.urls)
    /\ hpc' = "done"
    /\ UNCHANGED <<hin, hout, pipelineVars, patcherVars, parserVars, batchVars>>

NextClone == ProcessUrl \/ FinishClones

SpecClone == InitClone /\ [][NextClone]_vars

-----------------------------------------------------------------------------
(* The fixer specification: fix_dockerfile applied to a build file and the
   text the LLM answers with, the analysis having succeeded *)

MaxPreamble == 2

\* lines that may stand before the first FROM
PreambleLines ==
    { <<HASH, SP, "build file">>, <<"ARG", SP, "BASE=ubuntu">> }

RECURSIVE Preambles(_)
Preambles(n) ==
    IF n = 0 THEN {<<>>}
    ELSE Preambles(n - 1)
         \cup {p \o line \o <<LF>> : p \in Preambles(n - 1) \ {<<>>},
                                      line \in PreambleLines}
         \cup {line \o <<LF>> : line \in PreambleLines}

\* what stands before and after the text of the build file
Margins == { <<>>, <<LF>>, <<SP>>, <<SP, LF>> }

FixerOriginals ==
    { lead \o pre \o body \o trail :
        lead \in {<<>>, <<SP>>, <<LF>>},
        pre \in Preambles(MaxPreamble),
        body \in {Dockerfile1, Dockerfile1Fixed},
        trail \in Margins }

\* the answers of the LLM: the original verbatim, the original in a code
\* fence, a changed text
FixerReplies(original) ==
    { original,
      <<FENCE, "dockerfile", LF>> \o original \o <<LF, FENCE>>,
      Dockerfile1Fixed \o <<LF, "USER", SP, "app">> }

InitFix ==
    /\ AllOff
    /\ \E original \in FixerOriginals :
          \E reply \in FixerReplies(original) :
              hin = [original_dockerfile |-> original, reply |-> reply]
    /\ hout = <<>>
    /\ hpc = "prompt"

FixOnce ==
    /\ hpc = "prompt"
    /\ hout' = FixDockerfile(hin.original_dockerfile,
                             AnalysisRecord(FALSE, FALSE, TRUE),
                             LLMOutcome("text", hin.reply))
    /\ hpc' = "fixed"
    /\ UNCHANGED <<hin, pipelineVars, patcherVars, parserVars, batchVars>>

NextFix == FixOnce

SpecFix == InitFix /\ [][NextFix]_vars

-----------------------------------------------------------------------------
(* size_optimization_pipeline.process_repository: the estimated savings of a
   result *)

\* "cache" in message or "clean" in message, the message in lower case
HasCacheOrClean(message) ==
    \E i \in 1..Len(message) :
        message[i] \in {"cache", "no-cache", NCD, AGC, "clean", "Clean apt "}

\* lines 127-138: what one recommendation adds
SavingsOfMessage(message) ==
    IF Has(message, NIR) THEN 50000
    ELSE IF HasCacheOrClean(message) THEN 10000
    ELSE IF Has(message, NCD) THEN 5000
    ELSE IF Has(message, "multi-stage") THEN 100000
    ELSE IF Has(message, "layer") THEN 20000
    ELSE 0

RECURSIVE SumSavings(_)
SumSavings(recommendations) ==
    IF recommendations = <<>> THEN 0
    ELSE SavingsOfMessage(Head(recommendations).message)
         + SumSavings(Tail(recommendations))

\* lines 123-145; llm_data is the empty dict or holds
\* estimated_wasted_space_kb
estimate_size_savings(recommendations, llm_data) ==
    SumSavings(recommendations)
    + (IF llm_data # <<>> /\ GetOrZero(llm_data, "estimated_wasted_space_kb") > 0
       THEN llm_data["estimated_wasted_space_kb"] ELSE 0)

\* what apply_llm_size_optimization returns (lines 148-212): a changed text
\* with the size issues and the data of the analysis, the given text with
\* no_changes, or no text and an error
LLMStep(kind, size_issues, llm_data) ==
    [kind |-> kind, size_issues |-> size_issues, llm_data |-> llm_data]

\* the SizeOptimizationResult of lines 38-56, the fields the savings are in
SizeOptimizationResult(static_kb, llm_kb, total_kb, error) ==
    [static_estimated_savings_kb |-> static_kb,
     llm_estimated_savings_kb |-> llm_kb,
     total_estimated_savings_kb |-> total_kb,
     error |-> error]

\* lines 351-358: the savings of the static step, set when the patcher
\* changed the text
StaticSavings(content) ==
    IF apply_static_size_optimizations(content).text # content
    THEN estimate_size_savings(
             filter_size_recommendations(
                 analyse_instructions(parse_dockerfile(content))), <<>>)
    ELSE 0

\* lines 374-395: the savings fields after the LLM step
AfterLLMStep(static_kb, llm) ==
    IF llm.kind = "changed"
    THEN SizeOptimizationResult(
             static_kb,
             estimate_size_savings(llm.size_issues, llm.llm_data),
             static_kb + estimate_size_savings(llm.size_issues, llm.llm_data),
             "")
    ELSE IF llm.kind = "no_changes"
    THEN SizeOptimizationResult(static_kb, 0, static_kb, "")
    ELSE SizeOptimizationResult(static_kb, 0, 0, "LLM analysis failed")

\* lines 287-398; found: the clone holds a readable Dockerfile
process_repository(found, content, llm) ==
    IF ~found
    THEN SizeOptimizationResult(0, 0, 0, "No Dockerfiles found")
    ELSE AfterLLMStep(StaticSavings(content), llm)

-----------------------------------------------------------------------------
(* The savings specification: process_repository on a Dockerfile and an
   outcome of the LLM step *)

MaxIssues == 2

\* the size issues an analysis names
IssueMessages ==
    { <<"Use a ", "multi-stage", " build">>,
      <<"Too many ", "layer", "s">>,
      <<"The image ", "size", " is large">> }

RECURSIVE IssueLists(_)
IssueLists(n) ==
    IF n = 0 THEN {<<>>}
    ELSE IssueLists(n - 1)
         \cup {Append(l, [message |-> m]) :
                  l \in IssueLists(n - 1), m \in IssueMessages}

LLMDatas ==
    {<<>>}
    \cup {[k \in {"estimated_wasted_space_kb"} |-> w] : w \in WasteLevels}

LLMSteps ==
    {LLMStep("changed", l, d) : l \in IssueLists(MaxIssues) \ {<<>>},
                                d \in LLMDatas}
    \cup {LLMStep("no_changes", <<>>, d) : d \in LLMDatas}
    \cup {LLMStep("failed", <<>>, <<>>)}

\* the Dockerfiles of the repositories
SavingsTexts ==
    Segments
    \cup {<<"RUN", SP, AGI, SP, "x", SP, AND, SP, BS, LF>> \o line :
             line \in Segments}

InitSavings ==
    /\ AllOff
    /\ \E found \in BOOLEAN, text \in SavingsTexts, llm \in LLMSteps :
          hin = [found |-> found, original_content |-> text, llm |-> llm]
    /\ hout = <<>>
    /\ hpc = "repository"

ProcessSavings ==
    /\ hpc = "repository"
    /\ hout' = process_repository(hin.found, hin.original_content, hin.llm)
    /\ hpc' = "result"
    /\ UNCHANGED <<hin, pipelineVars, patcherVars, parserVars, batchVars>>

NextSavings == ProcessSavings

SpecSavings == InitSavings /\ [][NextSavings]_vars

-----------------------------------------------------------------------------
(* Properties of the pipeline (specification Spec) *)

CalledOps == {calls[i].op : i \in 1..Len(calls)}

LaterStages ==
    {"fix_dockerfile", "validate_fixes", "test_dockerfile", "cleanup_image"}

\* C1: once the Analyze stage is recorded as failed (the analyzer returned an
\* error, raised, or the build file could not be read), the run has called
\* none of fix_dockerfile, validate_fixes, test_dockerfile and cleanup_image,
\* and the overall success read from the result is false.
C1_AnalyzeFailureEndsRun ==
    stages["analysis"].status = "failure" =>
        /\ CalledOps \cap LaterStages = {}
        /\ pc \in {"returned", "exited", "next", "summary"}
        /\ ~ResultSuccess(success)

C1_Witness ==
    /\ pc = "returned"
    /\ stages["analysis"] = Stage("failure", "Failed to read Dockerfile")
    /\ "analyze_dockerfile" \in CalledOps

\* C2: when the LLM analysis of the original text has success = false, the
\* Analyze stage is recorded as a failure and fix_dockerfile is not called.
C2_LLMFailureFailsAnalyze ==
    (/\ ~original_analysis.empty
     /\ ~original_analysis.has_error
     /\ ~original_analysis.llm_success)
    => /\ stages["analysis"].status = "failure"
       /\ "fix_dockerfile" \notin CalledOps

\* C3: when the LLM call of the Fix stage fails (_call_llm yields one of its
\* error strings), the fixer reports failure, the Fix stage is a failure,
\* Validate and Test are not run, overall success is false and the error text
\* is not the fixed build file.
C3_FixLLMErrorFailsFix ==
    \A i \in 1..Len(calls) :
        (/\ calls[i].op = "_call_llm"
         /\ (StartsWithError(calls[i].text) \/ StartsWithApiError(calls[i].text)))
        => /\ fix_result.returned
           /\ ~fix_result.success
           /\ fix_result.fixed_dockerfile # calls[i].text
           /\ stages["fix"].status = "failure"
           /\ CalledOps \cap {"validate_fixes", "test_dockerfile"} = {}
           /\ ~ResultSuccess(success)
           /\ fixed_content # calls[i].text

\* C4: when the text the fixer returned is identical to the original text,
\* the Fix stage is recorded as a failure and Validate and Test are not run.
C4_NoOpFixIsFailure ==
    (fix_result.returned /\ fix_result.fixed_dockerfile = original_content)
    => /\ stages["fix"].status = "failure"
       /\ CalledOps \cap {"validate_fixes", "test_dockerfile"} = {}
       /\ pc \notin {"validate", "test", "cleanup", "finalize"}

C4_Witness ==
    /\ fix_result.returned
    /\ fix_result.fixed_dockerfile = original_content
    /\ \E i \in 1..Len(calls) :
          calls[i].op = "_call_llm" /\ calls[i].text = original_content
    /\ stages["fix"].status = "failure"
    /\ pc = "returned"

\* C5: every build the Test stage starts is given a build file whose content
\* is the fixed text of the Fix stage.
C5_BuildUsesFixedText ==
    \A i \in 1..Len(calls) :
        calls[i].op = "docker build" => calls[i].text = fixed_content

\* C6: the overall success of a returned result is true exactly when the
\* Analyze and the Fix stage succeeded, whatever Validate and Test did, and
\* after a failed Validate the Test stage is still entered (run or skipped).
C6_SuccessIsAnalyzeAndFix ==
    pc = "returned" =>
        /\ ResultSuccess(success) <=>
               (/\ stages["analysis"].status = "success"
                /\ stages["fix"].status = "success")
        /\ (stages["validation"].status = "failure"
            => /\ stages["test"].status # "absent"
               /\ (~skip_test /\ docker_available
                   => "test_dockerfile" \in CalledOps))

C6_Witness ==
    /\ pc = "returned"
    /\ success = "true"
    /\ stages["validation"].status = "failure"
    /\ stages["test"].status = "failure"

\* C7: when Analyze fails, the returned result has an entry for each of Fix,
\* Validate and Test, each marked skipped.
C7_LaterStagesMarkedSkipped ==
    (pc = "returned" /\ stages["analysis"].status = "failure")
    => \A n \in {"fix", "validation", "test"} : stages[n].status = "skipped"

\* C8: when optimize_dockerfile returns, every build it started with image
\* tag t is followed by a call cleanup_image(t), whatever the outcome of the
\* build and of the run; a build that timed out is recorded as a failure of
\* the Test stage with a timeout reason.
C8_CleanupAfterEveryBuild ==
    pc = "returned" =>
        \A i \in 1..Len(calls) :
            calls[i].op = "docker build" =>
                /\ \E j \in (i + 1)..Len(calls) :
                      /\ calls[j].op = "cleanup_image"
                      /\ calls[j].image = calls[i].image
                /\ (calls[i].result = "timeout"
                    => stages["test"] = Stage("failure", "Build timed out"))

C8_Witness ==
    /\ pc = "returned"
    /\ \E i \in 1..Len(calls) :
          calls[i].op = "docker build" /\ calls[i].result = "timeout"
    /\ "cleanup_image" \in CalledOps

\* the results main decides the exit code on
RunSummaries ==
    IF mode = "single" THEN <<Summary(success, stages)>> ELSE all_results

\* C9: in both modes the CLI exits with 1 when Analyze or Fix failed or a
\* requested Test failed for some processed build file, and with 0 otherwise.
C9_ExitCodeReflectsFailures ==
    pc = "exited" =>
        (exit_code = 1 <=>
            \E i \in 1..Len(RunSummaries) :
                \/ ~ResultSuccess(RunSummaries[i].success)
                \/ RunSummaries[i].test = "failure")
        /\ exit_code \in {0, 1}

\* a run whose fixed text the CLI may save
RunMaySave ==
    /\ stages["analysis"].status = "success"
    /\ stages["fix"].status = "success"
    /\ stages["test"].status # "failure"

\* C29: the CLI writes the fixed text to the output path, by default over the
\* original build file, only in runs where Analyze and Fix succeeded and the
\* Test stage did not fail; after every other run the file at the build-file
\* path (and at the output path) is what it was.
C29_SavesOnlyPassedRuns ==
    [][(pc = "returned" /\ ~RunMaySave)
          => (disk' = disk /\ outFile' = outFile)]_vars

-----------------------------------------------------------------------------
(* Properties of the patcher (specification SpecPatch) *)

\* C10: the patcher is idempotent: applied to the text it returned, it returns
\* that same text and an empty change list.
C10_PatcherIdempotent ==
    ppc = "twice" => pz.text = py.text /\ pz.changes = <<>>

\* the physical lines of a text as the patcher cuts them
PhysicalLines(text) == Split(text, LF)

\* C11: every line of the text the patcher returns that contains
\* "apt-get install" also contains "--no-install-recommends".
C11_InstallLinesCarryFlag ==
    ppc \in {"once", "twice"} =>
        \A i \in 1..Len(PhysicalLines(py.text)) :
            Has(PhysicalLines(py.text)[i], AGI)
                => Has(PhysicalLines(py.text)[i], NIR)

\* the input line i holds "apt-get install" and "&&" and no line within two
\* lines of it (itself included) holds an apt-list cleanup
NeedsAptCleanup(lines, i) ==
    /\ Has(lines[i], AGI)
    /\ Has(lines[i], AND)
    /\ \A j \in 1..Len(lines) :
          (i - 2 <= j /\ j <= i + 2) => ~Has(lines[j], RMLISTS)

\* C12: for every line of the input that holds "apt-get install" and "&&" with
\* no apt-list cleanup within two lines, the returned text holds the cleanup
\* clause right after that line's command: on the line itself or on the line
\* that follows it (lines above it may each have grown by one line).
C12_CleanupInsertedAfterInstall ==
    ppc \in {"once", "twice"} =>
        \A i \in 1..Len(PhysicalLines(px)) :
            NeedsAptCleanup(PhysicalLines(px), i)
                => \E k \in i..(2 * i) :
                      /\ k <= Len(PhysicalLines(py.text))
                      /\ Has(PhysicalLines(py.text)[k], RMLISTS)

-----------------------------------------------------------------------------
(* Properties of the parser and the analyser (specification SpecParse) *)

\* the positions of a "#" that has an even number of quotes before it
UnquotedHashes(s) ==
    {i \in 1..Len(s) :
        /\ s[i] = HASH
        /\ Cardinality({j \in 1..(i - 1) : s[j] = QUOTE}) % 2 = 0}

\* the text is a RUN instruction written over two or more physical lines,
\* each but the last ending in a backslash
IsContinuedRun(text) ==
    LET lines == PhysicalLines(text)
        N == Len(lines)
    IN  /\ N >= 2
        /\ \A i \in 1..N : Strip(lines[i]) # <<>> /\ Strip(lines[i])[1] # HASH
        /\ Len(Strip(lines[1])) >= 2
        /\ Strip(lines[1])[1] = "RUN"
        /\ Strip(lines[1])[2] = SP
        /\ \A i \in 1..(N - 1) : Strip(lines[i])[Len(Strip(lines[i]))] = BS
        /\ Strip(lines[N])[Len(Strip(lines[N]))] # BS

\* the lines of a continued RUN with the backslashes removed, joined by
\* single spaces, without the leading "RUN"
MergedValue(text) ==
    LET lines == PhysicalLines(text)
        N == Len(lines)
        piece(i) == IF i < N
                    THEN RStrip(UpTo(Strip(lines[i]), Len(Strip(lines[i])) - 1))
                    ELSE Strip(lines[i])
    IN  LStrip(Tail(Join([i \in 1..N |-> piece(i)], SP)))

\* C13 as stated: a RUN instruction written over N physical lines, each but
\* the last ending in a backslash, parses to exactly one instruction whose
\* value is the N lines without the backslashes, joined by single spaces.
C13_ContinuedRunIsOneInstruction ==
    (ppc # "text" /\ IsContinuedRun(px))
        => pinstr = <<Instruction("RUN", MergedValue(px))>>

\* C13 amended: the same, for the continued RUN instructions none of whose
\* lines holds a "#" outside quotes (the parser cuts such a line at the "#"
\* before it looks for the backslash).
C13_ContinuedRunWithoutHash ==
    (/\ ppc # "text"
     /\ IsContinuedRun(px)
     /\ \A i \in 1..Len(PhysicalLines(px)) :
           UnquotedHashes(PhysicalLines(px)[i]) = {})
        => pinstr = <<Instruction("RUN", MergedValue(px))>>

C13_Witness ==
    /\ ppc = "parsed"
    /\ px = ContinuedExample
    /\ pinstr = <<Instruction("RUN", <<"echo", SP, "a", SP, "b", SP, "c">>)>>

\* the text holds no "#" and no backslash: it is made of single-line
\* instructions only
SingleLineInstructions(text) == ~Has(text, HASH) /\ ~Has(text, BS)

\* C14: for every text made only of single-line instructions (no comment, no
\* "#", no trailing backslash), writing each parsed instruction back as the
\* line "OPCODE value" and parsing the result gives the instruction sequence
\* of the first parse.
C14_ParserRoundTrip ==
    (ppc = "reparsed" /\ SingleLineInstructions(px)) => pround = pinstr

C14_Witness ==
    /\ ppc = "reparsed"
    /\ SingleLineInstructions(px)
    /\ Len(pinstr) >= 2
    /\ Serialize(pinstr) # px
    /\ pround = pinstr

\* a physical line cut at its first "#" outside quotes, trailing blanks dropped
Truncated(line) ==
    LET s == Strip(line)
    IN  IF UnquotedHashes(s) = {} THEN s
        ELSE RStrip(UpTo(s, Min(UnquotedHashes(s)) - 1))

\* no line of the text is a comment line and none continues on the next line
PlainLines(text) ==
    \A i \in 1..Len(PhysicalLines(text)) :
        LET s == Strip(PhysicalLines(text)[i])
        IN  s # <<>> => /\ s[1] # HASH
                        /\ Truncated(s) # <<>>
                        /\ Truncated(s)[Len(Truncated(s))] # BS

\* the quote token stands for both quote characters of the source
\* C15: parse_dockerfile cuts every non-comment physical line at the first
\* "#" met while the quote flag is off (the flag starts off on each line and
\* every quote toggles it) and keeps a "#" met while it is on: the
\* instructions of a text of plain lines are those of its non-blank lines so
\* cut, "RUN foo # comment" has value "foo" and a quoted "a#b" is kept.
C15_InlineCommentCutOutsideQuotes ==
    ppc # "text" =>
        /\ PlainLines(px) =>
              LET kept == SelectSeq(PhysicalLines(px),
                                    LAMBDA l : Strip(l) # <<>>)
              IN  pinstr = [k \in 1..Len(kept) |->
                               SplitInstruction(Truncated(kept[k]))]
        /\ px = CommentExample => pinstr = <<Instruction("RUN", <<"foo">>)>>
        /\ px = QuotedExample =>
              pinstr = <<Instruction("RUN",
                             <<"foo", SP, QUOTE, "a", HASH, "b", QUOTE>>)>>

C15_Witness ==
    /\ ppc = "parsed"
    /\ PlainLines(px)
    /\ \E i \in 1..Len(PhysicalLines(px)) :
          LET l == PhysicalLines(px)[i]
          IN  /\ UnquotedHashes(l) # {}
              /\ \E j \in 1..Len(l) : l[j] = HASH /\ j < Min(UnquotedHashes(l))
    /\ Len(pinstr) = Len(PhysicalLines(px))

\* the first whitespace-delimited word of a logical line, in upper case
UpperFirstWord(line) ==
    IF Len(line) >= 2 /\ RestWords(line[1]) = <<>> /\ line[2] \notin Whitespace
    THEN "<word>"
    ELSE Upper(FirstWord(line[1]))

\* C16 as stated: the opcode of every instruction parse_dockerfile emits is
\* the first whitespace-delimited word of its logical line, in upper case.
C16_OpcodeIsUpperFirstWord ==
    ppc # "text" =>
        /\ Len(pinstr) = Len(LogicalLines(px))
        /\ \A k \in 1..Len(pinstr) :
              pinstr[k].instruction = UpperFirstWord(LogicalLines(px)[k].line)

\* C16 amended: the opcode of every instruction is the first
\* whitespace-delimited word of its logical line in upper case, except for
\* the instruction built from a "# syntax=" comment line, whose opcode is
\* SYNTAX and whose value is the whole line.
C16_OpcodeIsUpperFirstWordOrSyntax ==
    ppc # "text" =>
        /\ Len(pinstr) = Len(LogicalLines(px))
        /\ \A k \in 1..Len(pinstr) :
              LET l == LogicalLines(px)[k]
              IN  IF l.line[1] = HASH
                  THEN pinstr[k] = Instruction("SYNTAX", l.line)
                  ELSE pinstr[k].instruction = UpperFirstWord(l.line)

C16_Witness ==
    /\ ppc = "parsed"
    /\ \E k \in 1..Len(pinstr) : pinstr[k].instruction = "SYNTAX"
    /\ \E k \in 1..Len(pinstr) :
          /\ pinstr[k].instruction = "RUN"
          /\ LogicalLines(px)[k].line[1] = "run"

\* the opcode a recommendation message belongs to
OpcodeOfMessage(message) ==
    CASE message = MsgPinBase -> "FROM"
      [] message = MsgAdd -> "ADD"
      [] message \in {MsgNIR, MsgClean, MsgSameLayer, MsgPip, MsgCurl,
                      MsgCombine} -> "RUN"
      [] OTHER -> "general"

\* C17: every recommendation of analyse_instructions has instruction_index -1
\* or the position of an instruction of the analysed sequence
\* (0 <= index < length), and a recommendation with a non-negative index is
\* one the instruction at that position triggers.
C17_IndexIsGeneralOrValid ==
    ppc \in {"analysed", "reparsed"} =>
        \A r \in 1..Len(precs) :
            LET idx == precs[r].instruction_index
            IN  \/ idx = -1
                \/ /\ 0 <= idx
                   /\ idx < Len(pinstr)
                   /\ pinstr[idx + 1].instruction
                         = OpcodeOfMessage(precs[r].message)
                   /\ \E q \in 1..Len(InstructionRecs(idx, pinstr[idx + 1])) :
                         InstructionRecs(idx, pinstr[idx + 1])[q] = precs[r]

C17_Witness ==
    /\ ppc = "analysed"
    /\ Len(pinstr) >= 2
    /\ \E r \in 1..Len(precs) : precs[r].instruction_index = Len(pinstr) - 1
    /\ \E r \in 1..Len(precs) : precs[r].instruction_index = 0
    /\ \E r \in 1..Len(precs) : precs[r].instruction_index = -1

\* the image references that carry neither a tag other than latest nor a
\* digest
UnpinnedImages == {"ubuntu", "ubuntu:latest", "localhost:5000/ubuntu"}

Unpinned(value) == \E i \in 1..Len(value) : value[i] \in UnpinnedImages

\* C18: a FROM instruction whose image has no tag or digest, or the tag
\* latest (also behind a registry host with a port, a --platform option or
\* an AS alias) gets a warning with its index, and a FROM pinned to another
\* tag or to a digest gets none.
C18_UnpinnedFromIsWarned ==
    ppc \in {"analysed", "reparsed"} =>
        \A k \in 1..Len(pinstr) :
            pinstr[k].instruction = "FROM" =>
                (Unpinned(pinstr[k].value) <=>
                    \E r \in 1..Len(precs) :
                        /\ precs[r].severity = "warning"
                        /\ precs[r].instruction_index = k - 1
                        /\ precs[r].message = MsgPinBase)

\* C19: the text "FROM ubuntu", "RUN apt-get update && apt-get install -y
\* curl" parses to exactly two instructions, FROM and RUN, and
\* analyse_instructions returns exactly five recommendations for them: a
\* warning on the FROM, an info on the RUN for --no-install-recommends, an
\* info on the RUN for the apt caches, a general warning for the missing USER
\* and a general suggestion for the missing HEALTHCHECK.
C19_EndToEndExample ==
    (px = EndToEndExample /\ ppc \in {"analysed", "reparsed"}) =>
        /\ pinstr = <<Instruction("FROM", <<"ubuntu">>),
                      Instruction("RUN", <<AGU, SP, AND, SP, AGI, SP, "-y", SP,
                                           "curl">>)>>
        /\ precs = <<Rec("warning", 0, MsgPinBase),
                     Rec("info", 1, MsgNIR),
                     Rec("info", 1, MsgClean),
                     Rec("warning", -1, MsgUser),
                     Rec("suggestion", -1, MsgHealth)>>

C19_Witness ==
    /\ px = EndToEndExample
    /\ ppc = "analysed"
    /\ Len(pinstr) = 2
    /\ Len(precs) = 5

\* the parsed text holds a FROM instruction
HasFromInstruction(instructions) ==
    \E k \in 1..Len(instructions) : instructions[k].instruction = "FROM"

\* C24: _validate_syntax rejects a text if and only if parse_dockerfile gives
\* no FROM instruction for it; a rejected text makes test_dockerfile fail
\* without a build, and a text with a FROM instruction passes and is built.
C24_SyntaxRejectsIffNoFrom ==
    ppc = "tested" =>
        /\ ValidateSyntax(px) <=> HasFromInstruction(pinstr)
        /\ ~HasFromInstruction(pinstr) => ~hout.built /\ ~hout.success
        /\ HasFromInstruction(pinstr) => hout.built

-----------------------------------------------------------------------------
(* Properties of the batch runners (specification SpecBatch) *)

\* C20: in every batch runner a failure on one repository or file, an
\* exception of the analyzer, the fixer or a file read included, is recorded
\* against that entry, the run goes on to the remaining entries and the
\* report is written: main is never left before the report, every entry
\* the loop has handled has a record, and the report covers every entry.
C20_BatchNeverAborts ==
    /\ bpc # "aborted"
    /\ \A i \in 1..bidx :
          \E r \in 1..Len(brecords) : brecords[r].repo = bqueue[i]
    /\ bpc = "written" => bidx = Len(bqueue)

-----------------------------------------------------------------------------
(* Properties of dynamic_llm_analysis (specification SpecReply) *)

\* C21: for every reply text (a JSON object, truncated JSON, text that is not
\* JSON, JSON that is not an object or whose list fields are not lists, the
\* empty string) dynamic_llm_analysis returns a record, either a success or a
\* failure with an explicit error, that retains the raw reply; it never
\* raises.
C21_EveryReplyGivesRecord ==
    hpc = "analysed" =>
        /\ ~hout.raised
        /\ hout.success \/ hout.has_error
        /\ hout.raw_response = hin

-----------------------------------------------------------------------------
(* Properties of the comparator (specification SpecCompare) *)

\* the result carries the flag incomplete = true
FlaggedIncomplete(result) ==
    "incomplete" \in DOMAIN result /\ result["incomplete"] = TRUE

\* the snapshot lacks one of the required metrics
LacksMetric(scores) == \E key \in AllScoreKeys : key \notin DOMAIN scores

\* C23: _calculate_improvements computes every delta as after minus before,
\* an absent metric counting as zero, and its result flags incomplete = true
\* whenever the before or the after snapshot lacks a required metric.
C23_MissingMetricIsFlagged ==
    hpc = "compared" =>
        /\ \A key \in AllScoreKeys :
              hout[key].improvement =
                  GetOrZero(hin.fixed_scores, key)
                      - GetOrZero(hin.original_scores, key)
        /\ (LacksMetric(hin.original_scores) \/ LacksMetric(hin.fixed_scores))
              => FlaggedIncomplete(hout)

-----------------------------------------------------------------------------
(* Properties of the report row (specification SpecRecord) *)

\* C22: for a build file on which analysis, fix and validation all succeed,
\* the row of _record_single carries the wasted-space estimate of the
\* original text, the estimate of the fixed text and their delta, none of
\* them empty.
C22_RowCarriesWastedSpace ==
    (/\ hpc = "recorded"
     /\ ~hout.llm_error
     /\ ~hout.fix_error
     /\ ~hout.validation_error)
    => /\ hout.original_wasted_kb =
              <<hin.original_analysis.scores.estimated_wasted_space_kb>>
       /\ hout.fixed_wasted_kb =
              <<hin.fixed_analysis.scores.estimated_wasted_space_kb>>
       /\ hout.wasted_space_delta_kb =
              <<hin.fixed_analysis.scores.estimated_wasted_space_kb
                  - hin.original_analysis.scores.estimated_wasted_space_kb>>

-----------------------------------------------------------------------------
(* Properties of the working directories (specification SpecClone) *)

\* C25: in a batch run every URL is processed from a directory that holds
\* its own clone: two distinct URLs never get the same clone directory, and
\* no entry is analysed from another entry's clone or saves its build files
\* over those of another entry, also when two URLs end in the same name.
C25_EachUrlOwnsItsClone ==
    hpc \in {"loop", "done"} =>
        /\ \A i, j \in 1..Len(hout.log) :
              i # j => hout.log[i].dir # hout.log[j].dir
        /\ \A i \in 1..Len(hout.log) :
              /\ hout.log[i].analysed_from \in {"", hout.log[i].url.owner}
              /\ hout.log[i].overwrote = ""

\* the words of a piece of text, each in upper case
UpperWords(s) ==
    LET words == SelectSeq(s, LAMBDA tok : tok \notin Whitespace)
    IN  [k \in 1..Len(words) |-> Upper(words[k])]

\* the text a physical line gives to an instruction: nothing for a blank line
\* or a comment line, else the line without its inline comment and without
\* the backslash that continues it
LineText(line) ==
    LET stripped == Strip(line)
        code == remove_inline_comment(stripped)
    IN  IF stripped = <<>> \/ stripped[1] = HASH \/ code = <<>> THEN <<>>
        ELSE IF code[Len(code)] = BS THEN UpTo(code, Len(code) - 1)
        ELSE code

RECURSIVE TextOfLines(_)
TextOfLines(lines) ==
    IF lines = <<>> THEN <<>>
    ELSE UpperWords(LineText(Head(lines))) \o TextOfLines(Tail(lines))

RECURSIVE TextOfInstructions(_)
TextOfInstructions(instructions) ==
    IF instructions = <<>> THEN <<>>
    ELSE LET i == Head(instructions)
         IN  (IF i.instruction = "SYNTAX" THEN <<>>
              ELSE <<i.instruction>> \o UpperWords(i.value))
             \o TextOfInstructions(Tail(instructions))

\* C27: parse_dockerfile loses no instruction text: the words of the
\* non-blank, non-comment physical lines, comments cut, are the words of the
\* emitted instructions, in order and each once, also when the last such
\* line ends with a backslash.
C27_NoInstructionTextLost ==
    ppc # "text" => TextOfInstructions(pinstr) = TextOfLines(SplitLines(px))

-----------------------------------------------------------------------------
(* Properties of the patcher and the parser together (specification
   SpecPatch) *)

Opcodes(instructions) ==
    [k \in 1..Len(instructions) |-> instructions[k].instruction]

\* C28: the patcher preserves the instruction structure: the patched text
\* parses to as many instructions as the input, with the same opcodes in the
\* same order, and only the values of RUN instructions differ, also when a
\* matched line ends with a backslash or is a comment line.
C28_PatcherKeepsInstructionStructure ==
    ppc # "input" =>
        LET before == parse_dockerfile(px)
            after == parse_dockerfile(py.text)
        IN  /\ Len(after) = Len(before)
            /\ Opcodes(after) = Opcodes(before)
            /\ \A k \in 1..Len(before) :
                  before[k].instruction # "RUN"
                      => after[k].value = before[k].value

-----------------------------------------------------------------------------
(* Properties of the fixer (specification SpecFix) *)

\* C26: when the LLM answers the fix prompt with the original text verbatim,
\* fix_dockerfile returns success = false, whatever the original text: also
\* when it ends with a newline, has leading or trailing whitespace or has
\* lines before its first FROM.
C26_VerbatimReplyIsNoFix ==
    (hpc = "fixed" /\ hin.reply = hin.original_dockerfile) => ~hout.success

-----------------------------------------------------------------------------
(* Properties of process_repository (specification SpecSavings) *)

\* C30: in every result of process_repository, whether the static patch was
\* applied or not and whether the LLM step changed the text, found nothing to
\* change or failed, total_estimated_savings_kb is
\* static_estimated_savings_kb + llm_estimated_savings_kb.
C30_TotalIsStaticPlusLLM ==
    hpc = "result" =>
        hout.total_estimated_savings_kb =
            hout.static_estimated_savings_kb + hout.llm_estimated_savings_kb

====
